---------------------------- MODULE Spec2Model ----------------------------
(***************************************************************************)
(* zed-rts: the deterministic tick simulation (GameEngine and its systems) *)
(* and the lockstep protocol (GameScreen loops, NetworkManager, relay).    *)
(*                                                                         *)
(* Numbers.  The program computes with IEEE doubles; the model computes    *)
(* with integers in fixed scales:                                          *)
(*   positions, ranges, speeds, sizes     hundredths of a pixel  (x 100)   *)
(*   hp, damage                           tenths                 (x 10)    *)
(*   captureProgress, explosion frame     halves                 (x 2)     *)
(*   particle / trail life                thousandths            (x 1000)  *)
(*   A* costs g, h, f                     thousandths            (x 1000)  *)
(* The scenarios keep every entity on one horizontal line through tile     *)
(* centres, where the square roots and normalised directions of the        *)
(* program are exact in these scales.  Off that line a length or a step    *)
(* component is rounded down to the scale (ISqrt, StepComponent).          *)
(***************************************************************************)
EXTENDS Integers, Sequences, FiniteSets, TLC

VARIABLES
  engine,        \* GameEngine instances: [inst -> [state, isMultiplayer]]
  loop,          \* GameScreen game-loop closures: [inst -> record]
  commandQueue,  \* CommandQueue.queue per GameScreen
  stage,         \* history: what the last tick() call of each engine did
  consumed,      \* history: the tick() calls of each GameScreen, per turnData
  rooms,         \* relay: rooms map (room code -> Room)
  playerToRoom,  \* relay: playerToRoom map (connection -> room code)
  conn,          \* per connection: socket state and NetworkManager fields
  c2s,           \* client -> relay messages in flight, per connection (FIFO)
  s2c,           \* relay -> client messages in flight, per connection (FIFO)
  relayLog,      \* history: what the relay received and sent
  budget         \* model bound: remaining inputs of each kind

vars == <<engine, loop, commandQueue, stage, consumed, rooms, playerToRoom,
          conn, c2s, s2c, relayLog, budget>>

-----------------------------------------------------------------------------
(* Generic helpers *)

Abs(n) == IF n < 0 THEN -n ELSE n
Min(a, b) == IF a < b THEN a ELSE b
Max(a, b) == IF a > b THEN a ELSE b

SetMin(S) == CHOOSE m \in S : \A o \in S : m <= o

\* Object.keys / for..in order of an id-keyed Record: insertion order, which
\* for unit_<n>, bld_<n>, proj_<n> keys is the order of creation (ascending n).
RECURSIVE SortedSeq(_)
SortedSeq(S) == IF S = {} THEN <<>>
                ELSE LET m == SetMin(S) IN <<m>> \o SortedSeq(S \ {m})

Keys(f) == SortedSeq(DOMAIN f)

\* the largest base + k * step, k in 0..35, whose square is at most n
SqrtRefine(n, base, step) ==
  base + step * (CHOOSE k \in 0..35 :
                   LET v == base + k * step
                       w == v + step
                   IN v <= 46340 /\ v * v <= n /\ (k = 35 \/ w > 46340 \/ w * w > n))

\* floor(sqrt(n)), digit by digit in base 36 (46340 is floor(sqrt(2^31)))
ISqrt(n) ==
  IF n <= 0 THEN 0
  ELSE SqrtRefine(n, SqrtRefine(n, SqrtRefine(n, 0, 1296), 36), 1)

\* ceil(sqrt(n))
CeilSqrt(n) == LET r == ISqrt(n) IN IF r * r = n THEN r ELSE r + 1

\* utils/math distance(x1, y1, x2, y2) = sqrt(dx*dx + dy*dy)
distance(x1, y1, x2, y2) ==
  IF y1 = y2 THEN Abs(x2 - x1)
  ELSE IF x1 = x2 THEN Abs(y2 - y1)
  ELSE ISqrt((x2 - x1) * (x2 - x1) + (y2 - y1) * (y2 - y1))

\* (d / len) * speed of the movement code: one component of the step
StepComponent(d, len, speed) ==
  IF d >= 0 THEN (d * speed) \div len ELSE -((-d * speed) \div len)

-----------------------------------------------------------------------------
(* config/gameConfig.ts, types/entities.ts *)

NONE == 0
RED  == 1
BLUE == 2

TILE_SIZE     == 40 * 100
MAP_COLS      == 40
MAP_ROWS      == 28
CAPTURE_TIME  == 120 * 2
CAPTURE_RANGE == 60 * 100
BASE_PROD_TIME == 3000
PROD_SPEED_PER_SECTOR == 8        \* 0.08, in hundredths

worldWidth  == MAP_COLS * TILE_SIZE
worldHeight == MAP_ROWS * TILE_SIZE

UnitTypes == {"grunt", "psycho", "tough", "sniper", "jeep", "tank", "heavy"}

\* hp, damage in tenths; range, speed, size in hundredths; prodTime in hundredths
UNIT_DEFS ==
  [t \in UnitTypes |->
    CASE t = "grunt"  -> [hp |-> 400,  damage |-> 50,  range |-> 8000,  speed |-> 73,
                          fireRate |-> 30, size |-> 800,  prodTime |-> 30]
      [] t = "psycho" -> [hp |-> 550,  damage |-> 70,  range |-> 10000, speed |-> 67,
                          fireRate |-> 15, size |-> 900,  prodTime |-> 50]
      [] t = "tough"  -> [hp |-> 900,  damage |-> 180, range |-> 12000, speed |-> 47,
                          fireRate |-> 60, size |-> 1000, prodTime |-> 80]
      [] t = "sniper" -> [hp |-> 350,  damage |-> 250, range |-> 20000, speed |-> 60,
                          fireRate |-> 70, size |-> 800,  prodTime |-> 70]
      [] t = "jeep"   -> [hp |-> 700,  damage |-> 80,  range |-> 11000, speed |-> 117,
                          fireRate |-> 20, size |-> 1400, prodTime |-> 55]
      [] t = "tank"   -> [hp |-> 1800, damage |-> 300, range |-> 15000, speed |-> 50,
                          fireRate |-> 55, size |-> 1600, prodTime |-> 100]
      [] t = "heavy"  -> [hp |-> 3000, damage |-> 450, range |-> 16000, speed |-> 33,
                          fireRate |-> 75, size |-> 1800, prodTime |-> 150]]

BuildingTypes == {"fort", "robotFactory", "vehicleFactory"}

\* hp in tenths, size in hundredths; produces[0] is the initial order ("" = null)
BUILDING_DEFS ==
  [t \in BuildingTypes |->
    CASE t = "fort"           -> [hp |-> 5000, size |-> 3200, produces0 |-> ""]
      [] t = "robotFactory"   -> [hp |-> 2000, size |-> 2400, produces0 |-> "grunt"]
      [] t = "vehicleFactory" -> [hp |-> 2500, size |-> 2600, produces0 |-> "jeep"]]

\* Entity ids: unit_<n>, bld_<n>, proj_<n>; the null id of attackTargetId/targetId
UnitId(n) == [k |-> "unit", n |-> n]
BldId(n)  == [k |-> "bld", n |-> n]
NullId    == [k |-> "null", n |-> 0]

\* An id that is a property name every plain object inherits from
\* Object.prototype ("constructor", "toString", ...): state.units[id] and
\* state.buildings[id] then yield that inherited value, which is truthy and has
\* no x, y or owner.
ProtoId   == [k |-> "proto", n |-> 0]
Inherits(id) == id.k = "proto"

\* state.mapTiles of the scenarios: every tile grass (0); water is 1, mountain 3
mapTiles == [ty \in 0..(MAP_ROWS - 1) |-> [tx \in 0..(MAP_COLS - 1) |-> 0]]

-----------------------------------------------------------------------------
(* pathfinding: isPassable, isDiagonalPassable, canLineOfSight, findPath *)

isPassable(tiles, tx, ty, cols, rows) ==
  IF tx < 0 \/ tx >= cols \/ ty < 0 \/ ty >= rows THEN FALSE
  ELSE tiles[ty][tx] # 1 /\ tiles[ty][tx] # 3

\* a search that lets every diagonal step through
AnyDiagonalPassable(tiles, fromX, fromY, toX, toY, cols, rows) == TRUE

isDiagonalPassable(tiles, fromX, fromY, toX, toY, cols, rows) ==
  LET dx == toX - fromX
      dy == toY - fromY
  IN IF Abs(dx) = 1 /\ Abs(dy) = 1
     THEN isPassable(tiles, fromX + dx, fromY, cols, rows)
          /\ isPassable(tiles, fromX, fromY + dy, cols, rows)
     ELSE TRUE

\* Math.ceil(distance / (tileSize / 2)); exact for points whose offsets are
\* multiples of half a tile (tile centres)
LosSteps(dx, dy, tileSize) ==
  LET u == tileSize \div 2
  IN IF dy = 0 THEN (Abs(dx) + u - 1) \div u
     ELSE IF dx = 0 THEN (Abs(dy) + u - 1) \div u
     ELSE IF dx % u = 0 /\ dy % u = 0
          THEN CeilSqrt((dx \div u) * (dx \div u) + (dy \div u) * (dy \div u))
          ELSE (CeilSqrt(dx * dx + dy * dy) + u - 1) \div u

canLineOfSight(tiles, x1, y1, x2, y2, tileSize, cols, rows) ==
  LET dx == x2 - x1
      dy == y2 - y1
      steps == LosSteps(dx, dy, tileSize)
  IN IF dx = 0 /\ dy = 0 THEN TRUE
     ELSE \A i \in 1..(steps - 1) :
            isPassable(tiles,
                       (x1 * steps + dx * i) \div (steps * tileSize),
                       (y1 * steps + dy * i) \div (steps * tileSize),
                       cols, rows)

\* the heuristic distance(nx, ny, endTx, endTy) in thousandths of a tile
Heuristic(x1, y1, x2, y2) ==
  LET sq == (x2 - x1) * (x2 - x1) + (y2 - y1) * (y2 - y1)
  IN IF y1 = y2 THEN 1000 * Abs(x2 - x1)
     ELSE IF x1 = x2 THEN 1000 * Abs(y2 - y1)
     ELSE IF sq <= 2000 THEN ISqrt(sq * 1000000)
     ELSE 10 * ISqrt(sq * 10000)

\* the eight neighbours, in the order of the neighbors array
Neighbors == << <<0, -1>>, <<1, -1>>, <<1, 0>>, <<1, 1>>,
                <<0, 1>>, <<-1, 1>>, <<-1, 0>>, <<-1, -1>> >>

\* the spiral search for the nearest passable tile: ring `radius`, dx outer
\* loop, dy inner loop; i enumerates (dx, dy) in that order
RECURSIVE SpiralRing(_, _, _, _, _, _, _)
SpiralRing(tiles, endTx, endTy, cols, rows, radius, i) ==
  LET w  == 2 * radius + 1
      dx == (i \div w) - radius
      dy == (i % w) - radius
  IN IF i >= w * w THEN <<>>
     ELSE IF (Abs(dx) = radius \/ Abs(dy) = radius)
             /\ isPassable(tiles, endTx + dx, endTy + dy, cols, rows)
          THEN <<endTx + dx, endTy + dy>>
          ELSE SpiralRing(tiles, endTx, endTy, cols, rows, radius, i + 1)

RECURSIVE SpiralSearch(_, _, _, _, _, _)
SpiralSearch(tiles, endTx, endTy, cols, rows, radius) ==
  IF radius > Max(cols, rows) THEN <<endTx, endTy>>
  ELSE LET hit == SpiralRing(tiles, endTx, endTy, cols, rows, radius, 0)
       IN IF hit # <<>> THEN hit
          ELSE SpiralSearch(tiles, endTx, endTy, cols, rows, radius + 1)

\* const maxIterations = 500
maxIterations == 500

\* openSet is a Map in insertion order: a sequence of nodes [x, y, g, h, f, px, py]
\* where (px, py) is the parent's tile ((-1, -1) for the start node).
\* openSet.get(key(x, y)): the node's index, 0 when the key is absent
OpenIndex(open, x, y) ==
  IF \E i \in 1..Len(open) : open[i].x = x /\ open[i].y = y
  THEN CHOOSE i \in 1..Len(open) : open[i].x = x /\ open[i].y = y
  ELSE 0

\* the scan "if (!current || node.f < current.f)": the first node of least f
LowestF(open) ==
  CHOOSE i \in 1..Len(open) :
    \A j \in 1..Len(open) : open[i].f < open[j].f \/ (open[i].f = open[j].f /\ i <= j)

RemoveAt(s, i) == SubSeq(s, 1, i - 1) \o SubSeq(s, i + 1, Len(s))

\* the node the loop body builds for neighbour i of `cur`
NeighborNode(cur, i, endTx, endTy) ==
  LET nx == cur.x + Neighbors[i][1]
      ny == cur.y + Neighbors[i][2]
      movementCost == IF Abs(Neighbors[i][1]) + Abs(Neighbors[i][2]) = 2
                      THEN 1414 ELSE 1000
      Built(g, h) == [x |-> nx, y |-> ny, g |-> g, h |-> h, f |-> g + h,
                      px |-> cur.x, py |-> cur.y]
  IN Built(cur.g + movementCost, Heuristic(nx, ny, endTx, endTy))

\* the three "continue" tests of the loop body
SkipNeighbor(tiles, closed, cur, i, cols, rows) ==
  LET nx == cur.x + Neighbors[i][1]
      ny == cur.y + Neighbors[i][2]
  IN \/ <<nx, ny>> \in closed
     \/ ~isPassable(tiles, nx, ny, cols, rows)
     \/ ~isDiagonalPassable(tiles, cur.x, cur.y, nx, ny, cols, rows)

\* the loop over the eight neighbours of `cur`.  The neighbours are eight
\* different tiles, so an iteration touches no key another one reads: a node
\* already in openSet is replaced in place when the new g is smaller, and the
\* neighbours without a node are appended in the order of the array.
RelaxNeighbors(tiles, open, closed, cur, endTx, endTy, cols, rows) ==
  LET Kept(nodes, live) ==
        [k \in 1..Len(open) |->
           IF \E i \in live : nodes[i].x = open[k].x /\ nodes[i].y = open[k].y
                               /\ nodes[i].g < open[k].g
           THEN nodes[CHOOSE i \in live : nodes[i].x = open[k].x /\ nodes[i].y = open[k].y]
           ELSE open[k]]
      Added(nodes, live) ==
        SelectSeq(nodes, LAMBDA n : /\ \E i \in live : nodes[i] = n
                                    /\ OpenIndex(open, n.x, n.y) = 0)
      Relaxed(nodes, live) == Kept(nodes, live) \o Added(nodes, live)
  IN Relaxed([i \in 1..Len(Neighbors) |-> NeighborNode(cur, i, endTx, endTy)] \o <<>>,
             {i \in 1..Len(Neighbors) : ~SkipNeighbor(tiles, closed, cur, i, cols, rows)})

\* "while (node) pathTiles.unshift(node); node = node.parent": the tiles from
\* the start to (x, y); parents maps every expanded tile to its parent
RECURSIVE PathTilesTo(_, _, _)
PathTilesTo(parents, x, y) ==
  IF x = -1 THEN <<>>
  ELSE PathTilesTo(parents, parents[<<x, y>>][1], parents[<<x, y>>][2])
       \o << <<x, y>> >>

TileCentre(t, tileSize) ==
  [x |-> t[1] * tileSize + tileSize \div 2, y |-> t[2] * tileSize + tileSize \div 2]

\* the line-of-sight pass "for (let i = 2; ...)": result so far, lastAddedIdx
\* (indices are 1-based here: simplified[1] is the start tile's centre)
RECURSIVE LosPass(_, _, _, _, _, _, _, _)
LosPass(tiles, simplified, result, lastAddedIdx, i, tileSize, cols, rows) ==
  IF i > Len(simplified) THEN result \o << simplified[Len(simplified)] >>
  ELSE IF canLineOfSight(tiles, simplified[lastAddedIdx].x, simplified[lastAddedIdx].y,
                         simplified[i].x, simplified[i].y, tileSize, cols, rows)
       THEN LosPass(tiles, simplified, result, lastAddedIdx, i + 1, tileSize, cols, rows)
       ELSE LosPass(tiles, simplified, Append(result, simplified[i - 1]), i - 1, i + 1,
                    tileSize, cols, rows)

SimplifyPath(tiles, pathTiles, tileSize, cols, rows) ==
  LET simplified == [i \in 1..Len(pathTiles) |-> TileCentre(pathTiles[i], tileSize)]
  IN IF Len(simplified) = 0 THEN <<>>
     ELSE IF Len(simplified) = 1 THEN <<simplified[1]>>
     ELSE LosPass(tiles, simplified, <<simplified[1]>>, 1, 3, tileSize, cols, rows)

\* a loop "while (openSet.size > 0)", without the bound on its turns
AStarStepUnbounded(tiles, st, endTx, endTy, cols, rows, tileSize) ==
  IF Len(st.open) = 0
  THEN [st EXCEPT !.done = TRUE]
  ELSE
    LET c    == LowestF(st.open)
        cur  == st.open[c]
        par2 == (<<cur.x, cur.y>> :> <<cur.px, cur.py>>) @@ st.parents
    IN IF cur.x = endTx /\ cur.y = endTy
       THEN [st EXCEPT !.done = TRUE,
                       !.iterations = @ + 1,
                       !.path = SimplifyPath(tiles, PathTilesTo(par2, cur.x, cur.y),
                                             tileSize, cols, rows)]
       ELSE LET closed2 == st.closed \cup {<<cur.x, cur.y>>}
            IN [st EXCEPT !.open = RelaxNeighbors(tiles, RemoveAt(st.open, c), closed2,
                                                  cur, endTx, endTy, cols, rows),
                          !.closed = closed2,
                          !.parents = par2,
                          !.iterations = @ + 1]

\* one turn of the while loop of findPath, lines 173-283: the loop ends (done)
\* when the open set is empty, when maxIterations turns have run, or when the
\* node taken from the open set is the destination; iterations counts the
\* turns ("iterations++")
AStarStep(tiles, st, endTx, endTy, cols, rows, tileSize) ==
  IF Len(st.open) = 0 \/ st.iterations >= maxIterations
  THEN [st EXCEPT !.done = TRUE]
  ELSE
    LET c    == LowestF(st.open)
        cur  == st.open[c]
        par2 == (<<cur.x, cur.y>> :> <<cur.px, cur.py>>) @@ st.parents
    IN IF cur.x = endTx /\ cur.y = endTy
       THEN [st EXCEPT !.done = TRUE,
                       !.iterations = @ + 1,
                       !.path = SimplifyPath(tiles, PathTilesTo(par2, cur.x, cur.y),
                                             tileSize, cols, rows)]
       ELSE LET closed2 == st.closed \cup {<<cur.x, cur.y>>}
            IN [st EXCEPT !.open = RelaxNeighbors(tiles, RemoveAt(st.open, c), closed2,
                                                  cur, endTx, endTy, cols, rows),
                          !.closed = closed2,
                          !.parents = par2,
                          !.iterations = @ + 1]

\* the while loop of findPath, for at most n turns: the first half of the
\* turns, then the rest
RECURSIVE AStarLoop(_, _, _, _, _, _, _, _)
AStarLoop(tiles, st, n, endTx, endTy, cols, rows, tileSize) ==
  IF st.done THEN st
  ELSE IF n <= 1 THEN AStarStep(tiles, st, endTx, endTy, cols, rows, tileSize)
  ELSE AStarLoop(tiles,
                 AStarLoop(tiles, st, n \div 2, endTx, endTy, cols, rows, tileSize),
                 n - n \div 2, endTx, endTy, cols, rows, tileSize)

Clamp(v, lo, hi) == Max(lo, Min(v, hi))

findPathRun(tiles, startX, startY, endX, endY, cols, rows, tileSize) ==
  LET startTx == Clamp(startX \div tileSize, 0, cols - 1)
      startTy == Clamp(startY \div tileSize, 0, rows - 1)
      endTx0  == Clamp(endX \div tileSize, 0, cols - 1)
      endTy0  == Clamp(endY \div tileSize, 0, rows - 1)
      startNode(h0) == [x |-> startTx, y |-> startTy, g |-> 0, h |-> h0, f |-> h0,
                        px |-> -1, py |-> -1]
      Search(dest) ==
        IF startTx = dest[1] /\ startTy = dest[2]
        THEN [path |-> <<>>, iterations |-> 0, done |-> TRUE]
        ELSE AStarLoop(tiles,
                       [open |-> << startNode(Heuristic(startTx, startTy,
                                                        dest[1], dest[2])) >>,
                        closed |-> {}, parents |-> <<>>, iterations |-> 0,
                        done |-> FALSE, path |-> <<>>],
                       maxIterations + 1, dest[1], dest[2], cols, rows, tileSize)
  IN Search(IF isPassable(tiles, endTx0, endTy0, cols, rows)
            THEN <<endTx0, endTy0>>
            ELSE SpiralSearch(tiles, endTx0, endTy0, cols, rows, 1))

\* the value findPath returns
findPath(tiles, startX, startY, endX, endY, cols, rows, tileSize) ==
  findPathRun(tiles, startX, startY, endX, endY, cols, rows, tileSize).path

-----------------------------------------------------------------------------
(* Math.random(): not seeded, so every call is a free choice.  A tick draws  *)
(* its values from one stream s; the k-th draw of the tick is RandomValue(s, *)
(* k), standing for the number RandomValue / RandRes in [0, 1).              *)

NumStreams == 2
RandRes    == 4

RandomStreams == 0..(NumStreams - 1)

RandomValue(s, k) == (s * (k + 1)) % RandRes

\* draw positions inside one tick() call: the first and the second
\* updateMovement, updateCombat (8 per impact), updateAI
DrawBaseMove1  == 0
DrawBaseCombat == 12
DrawBaseAI     == 60
DrawBaseMove2  == 80

-----------------------------------------------------------------------------
(* GameState.ts: spawnUnit *)

NewUnit(n, type, x, y, team) ==
  [id |-> n, type |-> type, owner |-> team, x |-> x, y |-> y,
   hp |-> UNIT_DEFS[type].hp, maxHp |-> UNIT_DEFS[type].hp,
   state |-> "idle", path |-> <<>>, fireCooldown |-> 0,
   attackTargetId |-> NullId, selected |-> FALSE]

\* a spawnUnit that names the unit with the lowest number no unit carries
spawnUnitAtFreeNumber(state, type, x, y, team) ==
  LET n == SetMin({k \in 0..state.nextUnitId : k \notin DOMAIN state.units})
  IN [state EXCEPT
        !.units = (n :> NewUnit(n, type, x, y, team)) @@ @,
        !.nextUnitId = @ + 1]

spawnUnit(state, type, x, y, team) ==
  [state EXCEPT
     !.units = (state.nextUnitId :> NewUnit(state.nextUnitId, type, x, y, team)) @@ @,
     !.nextUnitId = @ + 1]

-----------------------------------------------------------------------------
(* systems/movementSystem.ts: updateMovement *)

UNIT_SEPARATION_DISTANCE == 25 * 100
UNIT_SEPARATION_FORCE    == 150       \* 1.5

HasUnit(state, id)     == id.k = "unit" /\ id.n \in DOMAIN state.units
HasBuilding(state, id) == id.k = "bld" /\ id.n \in DOMAIN state.buildings

\* a / b rounded toward zero (the quotients of the scenarios are exact)
DivT(a, b) == IF a >= 0 THEN a \div b ELSE -((-a) \div b)

\* the step of the waypoint test "dist < def.speed + 2"
ArrivalDistance(def) == def.speed + 2 * 100

\* a path-following step that leaves the state of the unit alone
FollowPathKeepsState(unit) ==
  LET def  == UNIT_DEFS[unit.type]
      wp   == unit.path[1]
      dist == distance(unit.x, unit.y, wp.x, wp.y)
  IN IF dist < ArrivalDistance(def)
     THEN [unit EXCEPT !.path = Tail(unit.path)]
     ELSE [unit EXCEPT !.x = @ + StepComponent(wp.x - unit.x, dist, def.speed),
                       !.y = @ + StepComponent(wp.y - unit.y, dist, def.speed)]

\* lines 25-50: a unit with a path pops the waypoint or steps toward it
FollowPath(unit) ==
  LET def  == UNIT_DEFS[unit.type]
      wp   == unit.path[1]
      dist == distance(unit.x, unit.y, wp.x, wp.y)
  IN IF dist < ArrivalDistance(def)
     THEN LET newPath == Tail(unit.path)
          IN [unit EXCEPT !.path = newPath,
                          !.state = IF Len(newPath) > 0 THEN "moving" ELSE "idle"]
     ELSE [unit EXCEPT !.x = @ + StepComponent(wp.x - unit.x, dist, def.speed),
                       !.y = @ + StepComponent(wp.y - unit.y, dist, def.speed)]

\* lines 51-84: a unit with an attack target and no path
ChaseTarget(state, unit) ==
  LET def == UNIT_DEFS[unit.type]
      tid == unit.attackTargetId
      tx  == IF HasUnit(state, tid) THEN state.units[tid.n].x ELSE state.buildings[tid.n].x
      ty  == IF HasUnit(state, tid) THEN state.units[tid.n].y ELSE state.buildings[tid.n].y
      dist == distance(unit.x, unit.y, tx, ty)
  IN IF ~(HasUnit(state, tid) \/ HasBuilding(state, tid)) THEN unit
     ELSE IF dist > def.range
          THEN [unit EXCEPT !.x = @ + StepComponent(tx - unit.x, dist, def.speed),
                            !.y = @ + StepComponent(ty - unit.y, dist, def.speed),
                            !.state = "attacking"]
          ELSE [unit EXCEPT !.path = <<>>, !.state = "attacking"]

\* the body of the first loop for one unit
MoveUnit(state, unit) ==
  IF unit.hp <= 0 THEN unit
  ELSE IF Len(unit.path) > 0 THEN FollowPath(unit)
  ELSE IF unit.attackTargetId # NullId THEN ChaseTarget(state, unit)
  ELSE unit

\* lines 96-110: the push on `unit` from the friendly units closer than the
\* separation distance, read from newUnits as it is when the unit is reached
RECURSIVE SeparationSum(_, _, _, _, _)
SeparationSum(units, unit, ids, i, acc) ==
  IF i > Len(ids) THEN acc
  ELSE
    LET other == units[ids[i]]
        dist  == distance(unit.x, unit.y, other.x, other.y)
        near  == /\ ids[i] # unit.id
                 /\ other.owner = unit.owner /\ other.hp > 0
                 /\ dist < UNIT_SEPARATION_DISTANCE /\ dist > 0
    IN SeparationSum(units, unit, ids, i + 1,
         IF near
         THEN [x |-> acc.x + StepComponent(unit.x - other.x, dist, UNIT_SEPARATION_FORCE),
               y |-> acc.y + StepComponent(unit.y - other.y, dist, UNIT_SEPARATION_FORCE),
               count |-> acc.count + 1]
         ELSE acc)

\* lines 88-120: the separation loop, unit by unit, writing into newUnits
RECURSIVE SeparationPass(_, _, _)
SeparationPass(units, ids, i) ==
  IF i > Len(ids) THEN units
  ELSE
    LET unit == units[ids[i]]
        Pushed(sep) ==
          IF unit.hp > 0 /\ sep.count > 0
          THEN [units EXCEPT ![ids[i]].x = @ + DivT(sep.x, sep.count),
                             ![ids[i]].y = @ + DivT(sep.y, sep.count)]
          ELSE units
    IN SeparationPass(
         Pushed(SeparationSum(units, unit, ids, 1, [x |-> 0, y |-> 0, count |-> 0])),
         ids, i + 1)

\* lines 123-133
ClampToWorld(unit) ==
  LET padding == UNIT_DEFS[unit.type].size
  IN [unit EXCEPT !.x = Max(padding, Min(worldWidth - padding, unit.x)),
                  !.y = Max(padding, Min(worldHeight - padding, unit.y))]

\* lines 163-177: the 12 particles of a death explosion
DeathParticles(unit, s, base) ==
  [i \in 1..12 |->
     [x |-> unit.x, y |-> unit.y, angle |-> <<i - 1, 12>>,
      speed |-> 200 + (RandomValue(s, base + i - 1) * 200) \div RandRes,
      life |-> 500, maxLife |-> 500, color |-> "#666", size |-> 4]]

\* lines 137-190: the units the cleanup loop removes.  The loop returns from
\* inside its first iteration that meets a dead unit.
DeadToRemove(units, ids) ==
  LET dead == {i \in 1..Len(ids) : units[ids[i]].hp <= 0}
  IN IF dead = {} THEN {} ELSE {ids[SetMin(dead)]}

\* the explicit table of a function: every entry computed once
RECURSIVE TableOver(_, _)
TableOver(f, keys) ==
  IF keys = {} THEN <<>>
  ELSE LET k == CHOOSE x \in keys : TRUE
       IN (k :> f[k]) @@ TableOver(f, keys \ {k})

Table(f) == TableOver(f, DOMAIN f)

Restrict(f, S) == TableOver(f, S)

UnitDiedEvent(unit) ==
  [type |-> "unitDied", unitId |-> UnitId(unit.id), x |-> unit.x, y |-> unit.y,
   team |-> unit.owner]

RECURSIVE RemoveDead(_, _, _, _, _)
RemoveDead(state, units, removeSeq, s, base) ==
  IF Len(removeSeq) = 0 THEN [state EXCEPT !.units = units]
  ELSE
    LET unit == units[Head(removeSeq)]
    IN RemoveDead(
         [state EXCEPT
            !.events = Append(@, UnitDiedEvent(unit)),
            !.explosions = Append(@, [x |-> unit.x, y |-> unit.y, size |-> 30,
                                      frame |-> 0, maxFrame |-> 8 * 2]),
            !.particles = @ \o DeathParticles(unit, s, base)],
         Restrict(units, DOMAIN units \ {unit.id}),
         Tail(removeSeq), s, base + 12)

updateMovement(state, s, base) ==
  LET ids == Keys(state.units)
      Cleaned(inside) ==
        RemoveDead(state, inside, SortedSeq(DeadToRemove(inside, ids)), s, base)
      Clamped(pushed) == Cleaned(Table([id \in DOMAIN pushed |-> ClampToWorld(pushed[id])]))
  IN Clamped(SeparationPass(
       Table([id \in DOMAIN state.units |-> MoveUnit(state, state.units[id])]), ids, 1))

-----------------------------------------------------------------------------
(* systems/combatSystem.ts: updateCombat, fireProjectile *)

\* lines 229-246: the explicit attack target, if it is a live enemy in range
ExplicitTarget(state, unit) ==
  LET def == UNIT_DEFS[unit.type]
      tid == unit.attackTargetId
      none == [enemy |-> -1, enemyDist |-> def.range,
               building |-> -1, buildingDist |-> def.range]
  IN IF tid = NullId THEN none
     ELSE IF HasUnit(state, tid) /\ state.units[tid.n].owner # unit.owner
             /\ state.units[tid.n].hp > 0
          THEN LET t == state.units[tid.n]
                   dist == distance(unit.x, unit.y, t.x, t.y)
               IN IF dist <= def.range
                  THEN [none EXCEPT !.enemy = tid.n, !.enemyDist = dist]
                  ELSE none
     ELSE IF HasBuilding(state, tid) /\ state.buildings[tid.n].owner # unit.owner
             /\ state.buildings[tid.n].hp > 0
          THEN LET b == state.buildings[tid.n]
                   dist == distance(unit.x, unit.y, b.x, b.y)
               IN IF dist <= def.range
                  THEN [none EXCEPT !.building = tid.n, !.buildingDist = dist]
                  ELSE none
     ELSE none

\* lines 249-258: the scan for the closest enemy unit
RECURSIVE ScanUnits(_, _, _, _, _)
ScanUnits(units, unit, ids, i, t) ==
  IF i > Len(ids) THEN t
  ELSE
    LET other == units[ids[i]]
        dist  == distance(unit.x, unit.y, other.x, other.y)
    IN ScanUnits(units, unit, ids, i + 1,
         IF other.owner # unit.owner /\ other.hp > 0 /\ dist < t.enemyDist
         THEN [t EXCEPT !.enemy = ids[i], !.enemyDist = dist]
         ELSE t)

\* lines 261-272: the scan for the closest enemy building
RECURSIVE ScanBuildings(_, _, _, _, _)
ScanBuildings(buildings, unit, ids, i, t) ==
  IF i > Len(ids) THEN t
  ELSE
    LET b    == buildings[ids[i]]
        dist == distance(unit.x, unit.y, b.x, b.y)
    IN ScanBuildings(buildings, unit, ids, i + 1,
         IF b.owner # unit.owner /\ b.hp > 0 /\ dist < t.buildingDist
         THEN [t EXCEPT !.building = ids[i], !.buildingDist = dist]
         ELSE t)

\* lines 222-272: the target a unit resolves
ResolveTarget(state, units, buildings, unit) ==
  LET OrBuilding(t1) ==
        IF t1.enemy # -1 THEN t1
        ELSE ScanBuildings(buildings, unit, Keys(buildings), 1, t1)
  IN OrBuilding(ScanUnits(units, unit, Keys(units), 1, ExplicitTarget(state, unit)))

IsRocketType(type) == type = "psycho" \/ type = "sniper"

\* fireProjectile
NewProjectile(n, unit, targetX, targetY, targetId) ==
  [id |-> n, x |-> unit.x, y |-> unit.y, targetX |-> targetX, targetY |-> targetY,
   targetId |-> targetId, speed |-> IF IsRocketType(unit.type) THEN 400 ELSE 600,
   damage |-> UNIT_DEFS[unit.type].damage, team |-> unit.owner,
   isRocket |-> IsRocketType(unit.type), trail |-> <<>>, alive |-> TRUE]

UnitFiredEvent(unit, targetId) ==
  [type |-> "unitFired", unitId |-> UnitId(unit.id), targetId |-> targetId,
   isRocket |-> IsRocketType(unit.type)]

\* lines 212-306: the firing loop; acc holds newUnits, newProjectiles, newEvents
\* and nextProjId
RECURSIVE FireLoop(_, _, _, _)
FireLoop(state, acc, ids, i) ==
  IF i > Len(ids) THEN acc
  ELSE
    LET unit == acc.units[ids[i]]
        cooled == Max(0, unit.fireCooldown - 1)
        Fired(tx, ty, tid) ==
          [acc EXCEPT
             !.units[ids[i]].fireCooldown = UNIT_DEFS[unit.type].fireRate,
             !.projectiles = (acc.nextProjId :>
                                NewProjectile(acc.nextProjId, unit, tx, ty, tid)) @@ @,
             !.events = Append(@, UnitFiredEvent(unit, tid)),
             !.nextProjId = @ + 1]
        Aimed(t) ==
          IF cooled = 0 /\ (t.enemy # -1 \/ t.building # -1)
          THEN IF t.enemy # -1
               THEN Fired(acc.units[t.enemy].x, acc.units[t.enemy].y, UnitId(t.enemy))
               ELSE Fired(state.buildings[t.building].x, state.buildings[t.building].y,
                          BldId(t.building))
          ELSE [acc EXCEPT !.units[ids[i]].fireCooldown = cooled]
    IN FireLoop(state,
         IF unit.hp <= 0 THEN acc
         ELSE Aimed(ResolveTarget(state, acc.units, state.buildings, unit)),
         ids, i + 1)

BuildingDestroyedEvent(b) ==
  [type |-> "buildingDestroyed", buildingId |-> BldId(b.id), x |-> b.x, y |-> b.y]

\* lines 387-400: the 8 particles of an impact
ImpactParticles(proj, s, base) ==
  [i \in 1..8 |->
     [x |-> proj.x, y |-> proj.y, angle |-> <<i - 1, 8>>,
      speed |-> 100 + (RandomValue(s, base + i - 1) * 150) \div RandRes,
      life |-> 400, maxLife |-> 400, color |-> "#ff6", size |-> 3]]

\* line 405: proj.damage * 0.3
SplashDamage(proj) == (proj.damage * 3) \div 10

SPLASH_RADIUS == 30 * 100

\* lines 350-366: the direct hit on a unit
HitUnit(state, acc, proj) ==
  IF proj.targetId # NullId /\ HasUnit(state, proj.targetId)
     /\ proj.targetId.n \in DOMAIN acc.units /\ acc.units[proj.targetId.n].hp > 0
  THEN LET hit == [acc.units[proj.targetId.n] EXCEPT !.hp = @ - proj.damage]
       IN [acc EXCEPT !.units[proj.targetId.n] = hit,
                      !.events = IF hit.hp <= 0 THEN Append(@, UnitDiedEvent(hit)) ELSE @]
  ELSE acc

\* lines 369-384: the direct hit on a building
HitBuilding(state, acc, proj) ==
  IF proj.targetId # NullId /\ HasBuilding(state, proj.targetId)
     /\ acc.buildings[proj.targetId.n].hp > 0
  THEN LET hit == [acc.buildings[proj.targetId.n] EXCEPT !.hp = @ - proj.damage]
       IN [acc EXCEPT !.buildings[proj.targetId.n] = hit,
                      !.events = IF hit.hp <= 0
                                 THEN Append(@, BuildingDestroyedEvent(hit)) ELSE @]
  ELSE acc

\* lines 407-423: splash on units
RECURSIVE SplashUnits(_, _, _, _)
SplashUnits(acc, proj, ids, i) ==
  IF i > Len(ids) THEN acc
  ELSE
    LET other == acc.units[ids[i]]
        inSplash == /\ other.owner # proj.team /\ other.hp > 0
                    /\ distance(proj.x, proj.y, other.x, other.y) < SPLASH_RADIUS
        hit == [other EXCEPT !.hp = @ - SplashDamage(proj)]
    IN SplashUnits(
         IF inSplash
         THEN [acc EXCEPT !.units[ids[i]] = hit,
                          !.events = IF hit.hp <= 0 THEN Append(@, UnitDiedEvent(hit)) ELSE @]
         ELSE acc,
         proj, ids, i + 1)

\* lines 425-440: splash on buildings
RECURSIVE SplashBuildings(_, _, _, _)
SplashBuildings(acc, proj, ids, i) ==
  IF i > Len(ids) THEN acc
  ELSE
    LET b == acc.buildings[ids[i]]
        inSplash == /\ b.owner # proj.team /\ b.hp > 0
                    /\ distance(proj.x, proj.y, b.x, b.y) < SPLASH_RADIUS
        hit == [b EXCEPT !.hp = @ - SplashDamage(proj)]
    IN SplashBuildings(
         IF inSplash
         THEN [acc EXCEPT !.buildings[ids[i]] = hit,
                          !.events = IF hit.hp <= 0
                                     THEN Append(@, BuildingDestroyedEvent(hit)) ELSE @]
         ELSE acc,
         proj, ids, i + 1)

\* lines 343-450: what an arriving projectile does
Impact(state, acc, proj, s, base) ==
  LET Exploded(a3) ==
        [a3 EXCEPT !.explosions = Append(@, [x |-> proj.x, y |-> proj.y,
                                             size |-> IF proj.isRocket THEN 40 ELSE 20,
                                             frame |-> 0, maxFrame |-> 6 * 2]),
                   !.impacts = @ + 1]
      Splashed(a2) ==
        Exploded(IF proj.isRocket
                 THEN SplashBuildings(SplashUnits(a2, proj, Keys(a2.units), 1),
                                      proj, Keys(a2.buildings), 1)
                 ELSE a2)
  IN Splashed([HitBuilding(state, HitUnit(state, acc, proj), proj)
                 EXCEPT !.particles = @ \o ImpactParticles(proj, s, base)])

\* lines 318-339: re-aim at a live unit target, move, extend a rocket's trail
FlyProjectile(state, proj) ==
  LET tracked == proj.targetId # NullId /\ HasUnit(state, proj.targetId)
                 /\ state.units[proj.targetId.n].hp > 0
      targetX == IF tracked THEN state.units[proj.targetId.n].x ELSE proj.targetX
      targetY == IF tracked THEN state.units[proj.targetId.n].y ELSE proj.targetY
      At(x2, y2) ==
        [proj EXCEPT !.targetX = targetX, !.targetY = targetY, !.x = x2, !.y = y2,
                     !.trail = IF proj.isRocket
                               THEN Append(@, [x |-> x2, y |-> y2, life |-> 300]) ELSE @]
      Step(len) ==
        IF len > 0
        THEN At(proj.x + StepComponent(targetX - proj.x, len, proj.speed),
                proj.y + StepComponent(targetY - proj.y, len, proj.speed))
        ELSE At(proj.x, proj.y)
  IN Step(distance(proj.x, proj.y, targetX, targetY))

\* line 343: distToTarget < proj.speed * 2
Arrived(proj) ==
  distance(proj.x, proj.y, proj.targetX, proj.targetY) < proj.speed * 2

\* lines 310-451: the projectile loop
RECURSIVE ProjectileLoop(_, _, _, _, _)
ProjectileLoop(state, acc, ids, i, s) ==
  IF i > Len(ids) THEN acc
  ELSE
    LET Landed(flown) ==
          IF Arrived(flown)
          THEN Impact(state,
                      [acc EXCEPT !.projectiles[ids[i]] = [flown EXCEPT !.alive = FALSE]],
                      flown, s, DrawBaseCombat + 8 * acc.impacts)
          ELSE [acc EXCEPT !.projectiles[ids[i]] = flown]
    IN ProjectileLoop(state, Landed(FlyProjectile(state, acc.projectiles[ids[i]])),
                      ids, i + 1, s)

\* lines 461-468
AgeParticles(particles) ==
  SelectSeq([i \in 1..Len(particles) |-> [particles[i] EXCEPT !.life = @ - 16]],
            LAMBDA p : p.life > 0)

AgeExplosions(explosions) ==
  SelectSeq([i \in 1..Len(explosions) |-> [explosions[i] EXCEPT !.frame = @ + 1]],
            LAMBDA e : e.frame < e.maxFrame)

updateCombat(state, s) ==
  LET acc0 == [units |-> state.units, buildings |-> state.buildings,
               projectiles |-> state.projectiles, particles |-> state.particles,
               explosions |-> state.explosions, events |-> state.events,
               nextProjId |-> state.nextProjectileId, impacts |-> 0]
      Flown(fired) == ProjectileLoop(state, fired, Keys(fired.projectiles), 1, s)
      Settled(flown) ==
        [state EXCEPT
           !.units = flown.units,
           !.projectiles = Restrict(flown.projectiles,
                             {p \in DOMAIN flown.projectiles : flown.projectiles[p].alive}),
           !.buildings = flown.buildings,
           !.particles = AgeParticles(flown.particles),
           !.explosions = AgeExplosions(flown.explosions),
           !.events = flown.events,
           !.nextProjectileId = flown.nextProjId]
  IN Settled(Flown(FireLoop(state, acc0, Keys(state.units), 1)))

-----------------------------------------------------------------------------
(* systems/productionSystem.ts: updateProduction *)

\* CONFIG.BASE_PROD_TIME * UNIT_DEFS[type].prodTime
BaseTime(type) == (BASE_PROD_TIME * UNIT_DEFS[type].prodTime) \div 100

\* 1 + (sectorCount - 1) * PROD_SPEED_PER_SECTOR, in hundredths
SpeedBonus(sectorCount) == 100 + (sectorCount - 1) * PROD_SPEED_PER_SECTOR

MIN_PROD_TIME == 60

\* Math.max(baseTime / speedBonus, 60), in thousandths of a tick
ProdMaxTime(type, sectorCount) ==
  Max((BaseTime(type) * 100000) \div SpeedBonus(sectorCount), MIN_PROD_TIME * 1000)

\* building.prodTimer >= prodMaxTime, decided without rounding
ProductionDone(timer, type, sectorCount) ==
  /\ timer * SpeedBonus(sectorCount) >= BaseTime(type) * 100
  /\ timer >= MIN_PROD_TIME

SectorsOwned(state, team) ==
  Cardinality({i \in 1..Len(state.sectors) : state.sectors[i].owner = team})

\* (((idSeed * 1664525 + 1013904223 + extra) & 0xffffffff) >>> 0) / 0xffffffff,
\* as the 16-bit halves <<hi, lo>> of the 32-bit word
Lcg32(idSeed, extra) ==
  LET lo == idSeed * 26125 + 62303 + extra
      hi == idSeed * 25 + 15470 + lo \div 65536
  IN <<hi % 65536, lo % 65536>>

\* (word / 0xffffffff - 0.5) * 40, in hundredths of a pixel
SpawnOffset(idSeed, extra) ==
  LET w == Lcg32(idSeed, extra)
  IN (w[1] * 4000 + (w[2] * 4000) \div 65536) \div 65536 - 2000

UnitProducedEvent(n, b) ==
  [type |-> "unitProduced", unitId |-> UnitId(n), buildingId |-> BldId(b.id),
   team |-> b.owner]

\* a production step that spawns the unit and leaves the timer running
ProduceAtKeepsTimer(state, acc, id) ==
  LET b     == acc.buildings[id]
      count == SectorsOwned(state, b.owner)
      timed == [b EXCEPT !.prodMaxTime = ProdMaxTime(b.producing, count),
                         !.prodTimer = @ + 1]
      n     == acc.nextUnitId
  IN IF ProductionDone(timed.prodTimer, b.producing, count)
     THEN [spawnUnit(acc, b.producing,
                     b.rallyX + SpawnOffset(n, 0), b.rallyY + SpawnOffset(n, 12345),
                     b.owner)
             EXCEPT !.buildings[id] = timed,
                    !.events = Append(@, UnitProducedEvent(n, b))]
     ELSE [acc EXCEPT !.buildings[id] = timed]

\* the loop body for one building that has an order and an owner
ProduceAt(state, acc, id) ==
  LET b     == acc.buildings[id]
      count == SectorsOwned(state, b.owner)
      timed == [b EXCEPT !.prodMaxTime = ProdMaxTime(b.producing, count),
                         !.prodTimer = @ + 1]
      n     == acc.nextUnitId
  IN IF ProductionDone(timed.prodTimer, b.producing, count)
     THEN [spawnUnit(acc, b.producing,
                     b.rallyX + SpawnOffset(n, 0), b.rallyY + SpawnOffset(n, 12345),
                     b.owner)
             EXCEPT !.buildings[id] = [timed EXCEPT !.prodTimer = 0],
                    !.events = Append(@, UnitProducedEvent(n, b))]
     ELSE [acc EXCEPT !.buildings[id] = timed]

RECURSIVE ProductionLoop(_, _, _, _)
ProductionLoop(state, acc, ids, i) ==
  IF i > Len(ids) THEN acc
  ELSE LET b == acc.buildings[ids[i]]
       IN ProductionLoop(state,
            IF b.producing = "" \/ b.owner = NONE THEN acc ELSE ProduceAt(state, acc, ids[i]),
            ids, i + 1)

updateProduction(state) == ProductionLoop(state, state, Keys(state.buildings), 1)

-----------------------------------------------------------------------------
(* systems/captureSystem.ts: updateCapture *)

CAPTURE_SPEED_CAP == 4

\* live units of `team` within CAPTURE_RANGE of the flag
NearFlag(state, sector, team) ==
  Cardinality({id \in DOMAIN state.units :
     /\ state.units[id].hp > 0
     /\ state.units[id].owner = team
     /\ distance(state.units[id].x, state.units[id].y, sector.flagX, sector.flagY)
          <= CAPTURE_RANGE})

\* lines 288-294
CapturingTeam(redCount, blueCount) ==
  IF redCount > blueCount THEN RED
  ELSE IF blueCount > redCount THEN BLUE
  ELSE NONE

\* ContestSector whose decay is not floored at 0
ContestSectorNoFloor(sector, capturingTeam, redCount, blueCount) ==
  IF capturingTeam # sector.owner /\ capturingTeam # NONE
  THEN IF sector.capturingTeam # capturingTeam
       THEN [sector EXCEPT !.capturingTeam = capturingTeam, !.captureProgress = 0]
       ELSE [sector EXCEPT !.captureProgress =
               @ + 2 * Min(IF capturingTeam = RED THEN redCount ELSE blueCount,
                           CAPTURE_SPEED_CAP)]
  ELSE IF capturingTeam = NONE
       THEN [sector EXCEPT !.captureProgress = @ - 1]
       ELSE sector

\* lines 296-313: the sector with capturingTeam and progress updated; progress
\* is in halves, so the decay of 0.5 is 1
ContestSector(sector, capturingTeam, redCount, blueCount) ==
  IF capturingTeam # sector.owner /\ capturingTeam # NONE
  THEN IF sector.capturingTeam # capturingTeam
       THEN [sector EXCEPT !.capturingTeam = capturingTeam, !.captureProgress = 0]
       ELSE [sector EXCEPT !.captureProgress =
               @ + 2 * Min(IF capturingTeam = RED THEN redCount ELSE blueCount,
                           CAPTURE_SPEED_CAP)]
  ELSE IF capturingTeam = NONE
       THEN [sector EXCEPT !.captureProgress = Max(0, @ - 1)]
       ELSE sector

\* IsCaptured with the ceiling at half of CAPTURE_TIME
IsCapturedAtHalf(progress, capturingTeam, owner) ==
  progress >= CAPTURE_TIME \div 2 /\ capturingTeam # owner

\* line 316
IsCaptured(progress, capturingTeam, owner) ==
  progress >= CAPTURE_TIME /\ capturingTeam # owner

\* a capture that leaves the buildings with their old owner
TransferNoBuilding(buildings, sectorId, team) == buildings

\* lines 323-329
TransferBuildings(buildings, sectorId, team) ==
  Table([id \in DOMAIN buildings |->
           IF buildings[id].sectorId = sectorId
           THEN [buildings[id] EXCEPT !.owner = team]
           ELSE buildings[id]])

SectorCapturedEvent(sector, team) ==
  [type |-> "sectorCaptured", sectorId |-> sector.id, team |-> team]

RECURSIVE CaptureLoop(_, _, _)
CaptureLoop(state, acc, i) ==
  IF i > Len(acc.sectors) THEN acc
  ELSE
    LET sector == acc.sectors[i]
        redCount  == NearFlag(state, sector, RED)
        blueCount == NearFlag(state, sector, BLUE)
        team == CapturingTeam(redCount, blueCount)
        contested == ContestSector(sector, team, redCount, blueCount)
    IN CaptureLoop(state,
         IF IsCaptured(contested.captureProgress, team, sector.owner)
         THEN [acc EXCEPT
                 !.sectors[i] = [contested EXCEPT !.owner = team,
                                                  !.captureProgress = 0,
                                                  !.capturingTeam = NONE],
                 !.buildings = TransferBuildings(@, sector.id, team),
                 !.events = Append(@, SectorCapturedEvent(sector, team))]
         ELSE [acc EXCEPT !.sectors[i] = contested],
         i + 1)

updateCapture(state) == CaptureLoop(state, state, 1)

-----------------------------------------------------------------------------
(* systems/winConditionSystem.ts: checkWinCondition *)

\* a win check that starts after 60 ticks
WinCheckAtHalf == 120 \div 2

\* GameEngine.ts line 52 and the guard of checkWinCondition
WIN_CHECK_TICK == 120
FORT_INFILTRATION_RANGE == 20 * 100

\* Object.values(state.buildings).find(b => b.type === 'fort' && b.owner === team):
\* the building id, or -1
FortOf(state, team) ==
  LET forts == {id \in DOMAIN state.buildings :
                  state.buildings[id].type = "fort" /\ state.buildings[id].owner = team}
  IN IF forts = {} THEN -1 ELSE SetMin(forts)

Infiltrated(state, fort, enemy) ==
  /\ fort # -1
  /\ \E id \in DOMAIN state.units :
       /\ state.units[id].owner = enemy /\ state.units[id].hp > 0
       /\ distance(state.units[id].x, state.units[id].y,
                   state.buildings[fort].x, state.buildings[fort].y)
            < FORT_INFILTRATION_RANGE

Eliminated(state, team) ==
  /\ ~\E id \in DOMAIN state.units :
        state.units[id].owner = team /\ state.units[id].hp > 0
  /\ ~\E id \in DOMAIN state.buildings :
        /\ state.buildings[id].owner = team /\ state.buildings[id].hp > 0
        /\ state.buildings[id].producing # ""

GameOver(state, winner, reason) ==
  [state EXCEPT !.winner = winner, !.winReason = reason, !.isRunning = FALSE,
                !.events = Append(@, [type |-> "gameOver", winner |-> winner,
                                      reason |-> reason])]

\* the verdict of lines 370-498: <<winner, reason>> or <<NONE, "">>
WinVerdict(state) ==
  LET redFort  == FortOf(state, RED)
      blueFort == FortOf(state, BLUE)
  IN IF redFort # -1 /\ state.buildings[redFort].hp <= 0 THEN <<BLUE, "Red fort destroyed">>
     ELSE IF blueFort # -1 /\ state.buildings[blueFort].hp <= 0
          THEN <<RED, "Blue fort destroyed">>
     ELSE IF Infiltrated(state, redFort, BLUE) THEN <<BLUE, "Fort infiltrated">>
     ELSE IF Infiltrated(state, blueFort, RED) THEN <<RED, "Fort infiltrated">>
     ELSE IF Eliminated(state, RED) THEN <<BLUE, "Red eliminated">>
     ELSE IF Eliminated(state, BLUE) THEN <<RED, "Blue eliminated">>
     ELSE <<NONE, "">>

\* a check that judges a finished game again
checkWinConditionAgain(state) ==
  IF state.tick < WIN_CHECK_TICK THEN state
  ELSE LET v == WinVerdict(state)
       IN IF v[1] # NONE THEN GameOver(state, v[1], v[2]) ELSE state

checkWinCondition(state) ==
  IF state.tick < WIN_CHECK_TICK THEN state
  ELSE IF ~state.isRunning THEN state
  ELSE LET v == WinVerdict(state)
       IN IF v[1] # NONE THEN GameOver(state, v[1], v[2]) ELSE state

-----------------------------------------------------------------------------
(* GameEngine.ts: command application *)

PathTo(unit, targetX, targetY) ==
  findPath(mapTiles, unit.x, unit.y, targetX, targetY, MAP_COLS, MAP_ROWS, TILE_SIZE)

\* line 102 / 135: "if (!unit || unit.owner !== cmd.team) continue"
Authorized(units, unitId, team) ==
  unitId \in DOMAIN units /\ units[unitId].owner = team

\* a Move that keeps the unit's attack target
MovedUnitKeepsTarget(unit, path) ==
  [unit EXCEPT !.path = path,
               !.state = IF Len(path) > 0 THEN "moving" ELSE "idle"]

\* lines 116-121
MovedUnit(unit, path) ==
  [unit EXCEPT !.path = path,
               !.state = IF Len(path) > 0 THEN "moving" ELSE "idle",
               !.attackTargetId = NullId]

RECURSIVE MoveLoop(_, _, _)
MoveLoop(units, cmd, i) ==
  IF i > Len(cmd.unitIds) THEN units
  ELSE LET id == cmd.unitIds[i]
       IN MoveLoop(
            IF Authorized(units, id, cmd.team)
            THEN [units EXCEPT ![id] = MovedUnit(@, PathTo(@, cmd.targetX, cmd.targetY))]
            ELSE units,
            cmd, i + 1)

processMoveCommand(state, cmd) == [state EXCEPT !.units = MoveLoop(@, cmd, 1)]

\* lines 165-170
AttackingUnit(unit, targetId, path) ==
  [unit EXCEPT !.attackTargetId = targetId,
               !.path = path,
               !.state = IF Len(path) > 0 THEN "moving" ELSE "attacking"]

RECURSIVE AttackLoop(_, _, _, _)
AttackLoop(state, units, cmd, i) ==
  IF i > Len(cmd.unitIds) THEN units
  ELSE
    LET id == cmd.unitIds[i]
        tid == cmd.targetId
        found == HasUnit(state, tid) \/ HasBuilding(state, tid)
        tx == IF HasUnit(state, tid) THEN state.units[tid.n].x ELSE state.buildings[tid.n].x
        ty == IF HasUnit(state, tid) THEN state.units[tid.n].y ELSE state.buildings[tid.n].y
    IN AttackLoop(state,
         IF Authorized(units, id, cmd.team) /\ found
         THEN [units EXCEPT ![id] = AttackingUnit(@, tid, PathTo(@, tx, ty))]
         ELSE units,
         cmd, i + 1)

processAttackCommand(state, cmd) ==
  [state EXCEPT !.units = AttackLoop(state, @, cmd, 1)]

processProduceCommand(state, cmd) ==
  IF cmd.buildingId \notin DOMAIN state.buildings
     \/ state.buildings[cmd.buildingId].owner # cmd.team
  THEN state
  ELSE [state EXCEPT !.buildings[cmd.buildingId].producing = cmd.unitType,
                     !.buildings[cmd.buildingId].prodTimer = 0]

processSelectCommand(state, cmd) ==
  LET ids == {cmd.unitIds[i] : i \in 1..Len(cmd.unitIds)}
      u   == state.units
  IN [state EXCEPT !.units =
        Table([id \in DOMAIN u |->
                 IF u[id].owner = cmd.team
                 THEN [u[id] EXCEPT !.selected = (id \in ids)]
                 ELSE u[id]])]

InBox(unit, cmd) ==
  /\ unit.x >= cmd.left /\ unit.x <= cmd.right
  /\ unit.y >= cmd.top /\ unit.y <= cmd.bottom

processBoxSelectCommand(state, cmd) ==
  LET u == state.units
  IN [state EXCEPT !.units =
        Table([id \in DOMAIN u |->
                 IF u[id].owner = cmd.team
                 THEN [u[id] EXCEPT !.selected = InBox(u[id], cmd)]
                 ELSE u[id]])]

ApplyCommand(state, cmd) ==
  CASE cmd.type = "move"      -> processMoveCommand(state, cmd)
    [] cmd.type = "attack"    -> processAttackCommand(state, cmd)
    [] cmd.type = "produce"   -> processProduceCommand(state, cmd)
    [] cmd.type = "select"    -> processSelectCommand(state, cmd)
    [] cmd.type = "boxSelect" -> processBoxSelectCommand(state, cmd)
    [] OTHER                  -> state

RECURSIVE processCommands(_, _)
processCommands(state, commands) ==
  IF Len(commands) = 0 THEN state
  ELSE processCommands(ApplyCommand(state, Head(commands)), Tail(commands))

\* processAttackCommand, lines 140-163, for a target id that state.units
\* inherits: targetUnit is truthy, targetX and targetY are undefined, findPath
\* computes endTx = endTy = NaN (serialization.ts lines 119-126), isPassable
\* passes its bounds test (line 60) and reads mapTiles[NaN][NaN] (line 63),
\* which throws a TypeError.  It happens for the first unit the command is
\* authorized for.
AttackThrows(state, cmd) ==
  /\ Inherits(cmd.targetId)
  /\ \E i \in 1..Len(cmd.unitIds) : Authorized(state.units, cmd.unitIds[i], cmd.team)

\* processCommands(commands) throws: no command changes the owner of a unit or
\* the keys of state.units, so the test can be made on the state before the
\* first command
Throws(state, commands) ==
  \E j \in 1..Len(commands) :
    commands[j].type = "attack" /\ AttackThrows(state, commands[j])

-----------------------------------------------------------------------------
(* systems/aiSystem.ts: updateAI *)

\* Object.values(state.units).filter(...) as the sequence of unit ids, in order
LiveUnitsOf(state, team) ==
  SelectSeq(Keys(state.units),
            LAMBDA id : state.units[id].owner = team /\ state.units[id].hp > 0)

\* blueUnits.filter(u => u.state === 'idle' || u.path.length === 0)
IdleUnits(state, blueUnits) ==
  SelectSeq(blueUnits,
            LAMBDA id : state.units[id].state = "idle" \/ Len(state.units[id].path) = 0)

CountSectors(state, team) ==
  Cardinality({i \in 1..Len(state.sectors) : state.sectors[i].owner = team})

determineStrategy(state, blueUnits) ==
  LET neutralSectors == CountSectors(state, NONE)
      redUnits       == Len(LiveUnitsOf(state, RED))
  IN IF neutralSectors > 0 /\ Len(blueUnits) < 15 THEN "expand"
     ELSE IF Len(blueUnits) > redUnits + 3 THEN "attack"
     ELSE IF Len(blueUnits) > 5 THEN "attack"
     ELSE "expand"

\* the commands expandStrategy pushes
expandStrategy(state, idleUnits) ==
  LET targets == {i \in 1..Len(state.sectors) : state.sectors[i].owner # BLUE}
  IN IF Len(idleUnits) = 0 \/ targets = {} THEN <<>>
     ELSE LET targetSector == state.sectors[SetMin(targets)]
          IN << [type |-> "move",
                 unitIds |-> SubSeq(idleUnits, 1, Min(4, Len(idleUnits))),
                 targetX |-> targetSector.flagX, targetY |-> targetSector.flagY,
                 team |-> BLUE] >>

\* idleUnits.reduce(...): the least distance from an idle unit to redUnit
RECURSIVE NearestIdle(_, _, _, _, _)
NearestIdle(state, idleUnits, redUnit, i, best) ==
  IF i > Len(idleUnits) THEN best
  ELSE LET our  == state.units[idleUnits[i]]
           dist == distance(our.x, our.y, redUnit.x, redUnit.y)
       IN NearestIdle(state, idleUnits, redUnit, i + 1,
                      IF best = -1 \/ dist < best THEN dist ELSE best)

\* lines 119-132: the first RED unit of least distance; minDist -1 is Infinity
RECURSIVE ClosestRed(_, _, _, _, _, _)
ClosestRed(state, idleUnits, redUnits, i, closestUnit, minDist) ==
  IF i > Len(redUnits) THEN closestUnit
  ELSE LET unitDist == NearestIdle(state, idleUnits, state.units[redUnits[i]], 1, -1)
           closer   == minDist = -1 \/ unitDist < minDist
       IN ClosestRed(state, idleUnits, redUnits, i + 1,
                     IF closer THEN redUnits[i] ELSE closestUnit,
                     IF closer THEN unitDist ELSE minDist)

\* the commands attackStrategy pushes
attackStrategy(state, idleUnits) ==
  LET forts == {id \in DOMAIN state.buildings :
                  /\ state.buildings[id].type = "fort"
                  /\ state.buildings[id].owner = RED
                  /\ state.buildings[id].hp > 0}
      redUnits == LiveUnitsOf(state, RED)
      attack(targetId) == << [type |-> "attack", unitIds |-> idleUnits,
                              targetId |-> targetId, team |-> BLUE] >>
  IN IF Len(idleUnits) = 0 THEN <<>>
     ELSE IF Len(redUnits) > 0
          THEN attack(UnitId(ClosestRed(state, idleUnits, redUnits, 1, redUnits[1], -1)))
     ELSE IF forts # {} THEN attack(BldId(SetMin(forts)))
     ELSE <<>>

CountType(state, blueUnits, type) ==
  Cardinality({i \in 1..Len(blueUnits) : state.units[blueUnits[i]].type = type})

\* line 200: Math.random() > 0.5 ? 'tank' : 'heavy'
RandomVehicle(s, k) == IF 2 * RandomValue(s, k) > RandRes THEN "tank" ELSE "heavy"

\* line 226: options[Math.floor(Math.random() * options.length)]
RandomRobot(s, k) == <<"grunt", "psycho", "tough">>[(RandomValue(s, k) * 3) \div RandRes + 1]

\* the loop of productionStrategy over blueBuildings from index i on; k is the
\* number of Math.random() calls made so far
RECURSIVE ProductionOrders(_, _, _, _, _, _)
ProductionOrders(state, blueBuildings, blueUnits, i, s, k) ==
  IF i > Len(blueBuildings) THEN <<>>
  ELSE
    LET building == state.buildings[blueBuildings[i]]
        tankCount  == CountType(state, blueUnits, "tank")
        heavyCount == CountType(state, blueUnits, "heavy")
        toughCount == CountType(state, blueUnits, "tough")
        drawsV == ~(tankCount < 3) /\ ~(heavyCount < 2)
        drawsR == ~(Len(blueUnits) < 3) /\ ~(toughCount < 2)
        unitType ==
          IF building.type = "vehicleFactory"
          THEN IF tankCount < 3 THEN "tank"
               ELSE IF heavyCount < 2 THEN "heavy"
               ELSE RandomVehicle(s, DrawBaseAI + k)
          ELSE IF Len(blueUnits) < 3 THEN "grunt"
               ELSE IF toughCount < 2 THEN "tough"
               ELSE RandomRobot(s, DrawBaseAI + k)
        isFactory == building.type \in {"vehicleFactory", "robotFactory"}
        drew == \/ building.type = "vehicleFactory" /\ drawsV
                \/ building.type = "robotFactory" /\ drawsR
        order == IF isFactory /\ building.producing # unitType
                 THEN << [type |-> "produce", buildingId |-> building.id,
                          unitType |-> unitType, team |-> BLUE] >>
                 ELSE <<>>
    IN order \o ProductionOrders(state, blueBuildings, blueUnits, i + 1, s,
                                 IF drew THEN k + 1 ELSE k)

productionStrategy(state, s) ==
  LET blueBuildings == SelectSeq(Keys(state.buildings),
                         LAMBDA id : state.buildings[id].owner = BLUE
                                     /\ state.buildings[id].hp > 0)
  IN ProductionOrders(state, blueBuildings, LiveUnitsOf(state, BLUE), 1, s, 0)

updateAI(state, s) ==
  LET blueUnits == LiveUnitsOf(state, BLUE)
      idleUnits == IdleUnits(state, blueUnits)
      strategy  == determineStrategy(state, blueUnits)
  IN (IF strategy = "expand" THEN expandStrategy(state, idleUnits)
      ELSE attackStrategy(state, idleUnits))
     \o productionStrategy(state, s)

-----------------------------------------------------------------------------
(* GameEngine.ts: tick *)

\* an engine whose AI takes its turn on every tick
RunsAIEveryTick(isMultiplayer, state) == ~isMultiplayer /\ state.isRunning

\* line 44: the AI's turn, every 30th tick of a single-player game
RunsAI(isMultiplayer, state) ==
  ~isMultiplayer /\ state.tick % 30 = 0 /\ state.isRunning

\* the assignments to this.state of a tick() call
StepNames == {"cleared", "commanded", "moved", "fought", "produced", "captured",
              "steered", "judged", "final"}

\* an engine whose tick() runs Combat before Movement
TickStagesCombatFirst(state, isMultiplayer, commands, s) ==
  LET Failed == [k \in StepNames |-> [state EXCEPT !.events = <<>>]]
                  @@ ("directed" :> [runs |-> FALSE, state |-> state, aiCommands |-> <<>>])
      Commanded(st) == st @@ ("commanded" :> processCommands(st["cleared"], commands))
      Fought(st) == st @@ ("fought" :> updateCombat(st["commanded"], s))
      Moved(st) == st @@ ("moved" :> updateMovement(st["fought"], s, DrawBaseMove1))
      Produced(st) == st @@ ("produced" :> updateProduction(st["moved"]))
      Captured(st) == st @@ ("captured" :> updateCapture(st["produced"]))
      Plan(captured) ==
        IF RunsAI(isMultiplayer, captured)
        THEN [runs |-> TRUE, state |-> captured, aiCommands |-> updateAI(captured, s)]
        ELSE [runs |-> FALSE, state |-> captured, aiCommands |-> <<>>]
      Direct(p) ==
        IF p.runs THEN [p EXCEPT !.state = processCommands(@, p.aiCommands)] ELSE p
      Steer(p) ==
        IF p.runs THEN updateMovement(p.state, s, DrawBaseMove2) ELSE p.state
      Steered(st) ==
        LET directed == Direct(Plan(st["captured"]))
        IN st @@ ("directed" :> directed) @@ ("steered" :> Steer(directed))
      Judge(steered) ==
        IF steered.tick >= WIN_CHECK_TICK THEN checkWinCondition(steered) ELSE steered
      Judged(st) == st @@ ("judged" :> Judge(st["steered"]))
      Final(st) == st @@ ("final" :> [st["judged"] EXCEPT !.tick = @ + 1])
  IN IF Throws(state, commands) THEN Failed
     ELSE Final(Judged(Steered(Captured(Produced(Moved(Fought(Commanded(
            [cleared |-> [state EXCEPT !.events = <<>>]]))))))))

\* The states a tick() call goes through, in the order of lines 29-60.
\* `s` is the stream the call's Math.random() values come from.
\* A call whose processCommands throws leaves this.state as line 29 assigned
\* it: every stage of the record is that state, the tick is not incremented.
TickStages(state, isMultiplayer, commands, s) ==
  LET Failed == [k \in StepNames |-> [state EXCEPT !.events = <<>>]]
                  @@ ("directed" :> [runs |-> FALSE, state |-> state, aiCommands |-> <<>>])
      Commanded(st) == st @@ ("commanded" :> processCommands(st["cleared"], commands))
      Moved(st) == st @@ ("moved" :> updateMovement(st["commanded"], s, DrawBaseMove1))
      Fought(st) == st @@ ("fought" :> updateCombat(st["moved"], s))
      Produced(st) == st @@ ("produced" :> updateProduction(st["fought"]))
      Captured(st) == st @@ ("captured" :> updateCapture(st["produced"]))
      \* lines 44-49
      Plan(captured) ==
        IF RunsAI(isMultiplayer, captured)
        THEN [runs |-> TRUE, state |-> captured, aiCommands |-> updateAI(captured, s)]
        ELSE [runs |-> FALSE, state |-> captured, aiCommands |-> <<>>]
      Direct(p) ==
        IF p.runs THEN [p EXCEPT !.state = processCommands(@, p.aiCommands)] ELSE p
      Steer(p) ==
        IF p.runs THEN updateMovement(p.state, s, DrawBaseMove2) ELSE p.state
      Steered(st) ==
        LET directed == Direct(Plan(st["captured"]))
        IN st @@ ("directed" :> directed) @@ ("steered" :> Steer(directed))
      Judge(steered) ==
        IF steered.tick >= WIN_CHECK_TICK THEN checkWinCondition(steered) ELSE steered
      Judged(st) == st @@ ("judged" :> Judge(st["steered"]))
      Final(st) == st @@ ("final" :> [st["judged"] EXCEPT !.tick = @ + 1])
  IN IF Throws(state, commands) THEN Failed
     ELSE Final(Judged(Steered(Captured(Produced(Fought(Moved(Commanded(
            [cleared |-> [state EXCEPT !.events = <<>>]]))))))))

tick(state, isMultiplayer, commands, s) ==
  TickStages(state, isMultiplayer, commands, s).final

-----------------------------------------------------------------------------
(* Initial game states.  createInitialState(seed) builds the GameState from   *)
(* generateMap: one building per sector, owned by the sector's owner, placed  *)
(* 50 px above the flag with its rally point 50 px below, and the starting    *)
(* units spawned in a row.  The states below are built the same way on an     *)
(* all-grass map with fewer sectors and units, the flags and the units on the *)
(* row of tile centres y = FlagRowY.                                          *)

FlagRowY == 60 * 100

\* one entry of SECTOR_DEFS (x, y, w, h are read by the renderers only)
Sector(id, flagX, owner, buildingType) ==
  [id |-> id, flagX |-> flagX, flagY |-> FlagRowY, owner |-> owner,
   captureProgress |-> 0, capturingTeam |-> NONE, buildingType |-> buildingType]

\* generateMap, lines 134-162: the building of sectors[i] (i from 0)
SectorBuilding(i, sector) ==
  LET def == BUILDING_DEFS[sector.buildingType]
  IN [id |-> i, type |-> sector.buildingType, owner |-> sector.owner,
      sectorId |-> sector.id, x |-> sector.flagX, y |-> sector.flagY - 50 * 100,
      hp |-> def.hp, maxHp |-> def.hp, producing |-> def.produces0,
      prodTimer |-> 0,
      prodMaxTime |-> IF def.produces0 # "" THEN BaseTime(def.produces0) * 1000 ELSE 0,
      rallyX |-> sector.flagX, rallyY |-> sector.flagY + 50 * 100,
      size |-> def.size]

RECURSIVE SpawnAll(_, _)
SpawnAll(state, spawns) ==
  IF Len(spawns) = 0 THEN state
  ELSE SpawnAll(spawnUnit(state, Head(spawns).type, Head(spawns).x, FlagRowY,
                          Head(spawns).team),
                Tail(spawns))

\* createInitialState, lines 18-73
createInitialState(sectors, spawns) ==
  SpawnAll([tick |-> 0, isRunning |-> TRUE, winner |-> NONE, winReason |-> "",
            units |-> <<>>,
            buildings |-> [i \in 0..(Len(sectors) - 1) |-> SectorBuilding(i, sectors[i + 1])],
            sectors |-> sectors, projectiles |-> <<>>, particles |-> <<>>,
            explosions |-> <<>>, nextUnitId |-> 0, nextProjectileId |-> 0,
            events |-> <<>>],
           spawns)

\* A RED grunt in the range of a BLUE heavy tank; each team owns a fort only.
ScenarioDuel ==
  createInitialState(
    << Sector(0, 40 * 100, RED, "fort"), Sector(1, 280 * 100, BLUE, "fort") >>,
    << [type |-> "grunt", x |-> 100 * 100, team |-> RED],
       [type |-> "heavy", x |-> 220 * 100, team |-> BLUE] >>)

\* Two RED grunts at the flag of a neutral factory sector, a BLUE grunt nearby.
ScenarioCapture ==
  createInitialState(
    << Sector(0, 40 * 100, RED, "fort"), Sector(1, 160 * 100, NONE, "robotFactory"),
       Sector(2, 280 * 100, BLUE, "fort") >>,
    << [type |-> "grunt", x |-> 140 * 100, team |-> RED],
       [type |-> "grunt", x |-> 180 * 100, team |-> RED],
       [type |-> "grunt", x |-> 260 * 100, team |-> BLUE] >>)

\* A RED psycho (rockets) with a BLUE tough 36 px away, a step of 4 short of
\* the arrival distance after eight steps, and a BLUE grunt 25 px behind the
\* tough: outside the separation distance, inside the splash radius of a
\* rocket that lands on the tough.
ScenarioSplash ==
  createInitialState(
    << Sector(0, 40 * 100, RED, "fort"), Sector(1, 280 * 100, BLUE, "fort") >>,
    << [type |-> "psycho", x |-> 120 * 100, team |-> RED],
       [type |-> "tough", x |-> 156 * 100, team |-> BLUE],
       [type |-> "grunt", x |-> 181 * 100, team |-> BLUE] >>)

\* A BLUE grunt alone at the flag of a RED factory sector, two RED grunts out
\* of its range at the flag of the RED fort.
ScenarioDefend ==
  createInitialState(
    << Sector(0, 40 * 100, RED, "fort"), Sector(1, 160 * 100, RED, "robotFactory"),
       Sector(2, 280 * 100, BLUE, "fort") >>,
    << [type |-> "grunt", x |-> 60 * 100, team |-> RED],
       [type |-> "grunt", x |-> 80 * 100, team |-> RED],
       [type |-> "grunt", x |-> 180 * 100, team |-> BLUE] >>)

Scenarios == {ScenarioDuel, ScenarioCapture, ScenarioSplash, ScenarioDefend}

-----------------------------------------------------------------------------
(* History of a tick() call: who owned what after each step of the call, the *)
(* units counted at each flag by updateCapture, and what the commands did.   *)

Ownership(state) ==
  [sectors   |-> [k \in 1..Len(state.sectors) |->
                    [owner |-> state.sectors[k].owner,
                     captureProgress |-> state.sectors[k].captureProgress,
                     capturingTeam |-> state.sectors[k].capturingTeam]],
   buildings |-> [b \in DOMAIN state.buildings |-> state.buildings[b].owner]]

\* movementSystem.ts lines 25-75: the units that updateMovement, given
\* `state`, takes one path-following action for: a waypoint pop, a step toward
\* the waypoint, or a step toward an attack target that is out of range
Followers(state) ==
  {id \in DOMAIN state.units :
     LET unit == state.units[id]
     IN /\ unit.hp > 0
        /\ \/ Len(unit.path) > 0
           \/ /\ unit.attackTargetId # NullId
              /\ \/ HasUnit(state, unit.attackTargetId)
                 \/ HasBuilding(state, unit.attackTargetId)
              /\ ChaseTarget(state, unit).state = "attacking"
              /\ <<ChaseTarget(state, unit).x, ChaseTarget(state, unit).y>>
                   # <<unit.x, unit.y>>}

EventsOfType(events, type) == SelectSeq(events, LAMBDA e : e.type = type)

StageView(before, commands, st) ==
  [tick          |-> before.tick,
   wasRunning    |-> before.isRunning,
   commands      |-> commands,
   threw         |-> Throws(before, commands),
   commanded     |-> [units |-> st.commanded.units, buildings |-> st.commanded.buildings],
   combat        |-> [unitsBefore |-> st.moved.units, unitsAfter |-> st.fought.units,
                      buildingsBefore |-> st.moved.buildings,
                      buildingsAfter |-> st.fought.buildings,
                      projectilesBefore |-> st.moved.projectiles,
                      projectilesAfter |-> st.fought.projectiles,
                      fired |-> st.fought.nextProjectileId - st.moved.nextProjectileId],
   aiEffect      |-> st.steered # st.captured,
   followed      |-> [first  |-> Followers(st.commanded),
                      second |-> IF st.directed.runs THEN Followers(st.directed.state)
                                 ELSE {}],
   commandEffect |-> \/ st.commanded.units # st.cleared.units
                     \/ st.commanded.buildings # st.cleared.buildings,
   owners        |-> [k \in StepNames |-> Ownership(st[k])],
   nearFlag      |-> [k \in 1..Len(before.sectors) |->
                        [red  |-> NearFlag(st.produced, st.produced.sectors[k], RED),
                         blue |-> NearFlag(st.produced, st.produced.sectors[k], BLUE)]],
   captureEvents |-> EventsOfType(st.captured.events, "sectorCaptured")]

\* before the first tick() call
NoStage == [tick |-> -1]

-----------------------------------------------------------------------------
(* The environment of an engine: the commands handed to tick() *)

MaxTick      == 123    \* tick() calls per engine
MaxCommands  == 1      \* tick() calls that carry commands
CommandEvery == 40     \* commands are handed over every CommandEvery ticks

\* the number of an id no unit and no building carries
MissingId == 90 + 9

UnitsOf(state, team) ==
  SelectSeq(Keys(state.units), LAMBDA id : state.units[id].owner = team)

FirstUnitOf(state, team) ==
  LET ids == UnitsOf(state, team)
  IN IF Len(ids) = 0 THEN NullId ELSE UnitId(ids[1])

\* the command lists a player or a caller of tick() hands over in `state`
CommandPool(state) ==
  LET last == state.sectors[Len(state.sectors)]
      mid  == state.sectors[2]
  IN { << [type |-> "move", unitIds |-> UnitsOf(state, RED),
           targetX |-> last.flagX, targetY |-> last.flagY, team |-> RED] >>,
       << [type |-> "move", unitIds |-> UnitsOf(state, BLUE),
           targetX |-> mid.flagX, targetY |-> mid.flagY, team |-> BLUE] >>,
       << [type |-> "move", unitIds |-> UnitsOf(state, RED),
           targetX |-> mid.flagX, targetY |-> mid.flagY, team |-> BLUE] >>,
       << [type |-> "attack", unitIds |-> UnitsOf(state, RED),
           targetId |-> FirstUnitOf(state, BLUE), team |-> RED] >>,
       << [type |-> "produce", buildingId |-> 0, unitType |-> "psycho", team |-> RED] >>,
       \* a unit that does not exist and units of the other team, named with
       \* the team's own units; a later command
       << [type |-> "move", unitIds |-> <<MissingId>> \o UnitsOf(state, BLUE) \o UnitsOf(state, RED),
           targetX |-> last.flagX, targetY |-> last.flagY, team |-> RED],
          [type |-> "produce", buildingId |-> 0, unitType |-> "tough", team |-> RED] >>,
       \* a target that does not exist; then the other team's units and a
       \* missing one named in an attack on the BLUE fort
       << [type |-> "attack", unitIds |-> UnitsOf(state, RED),
           targetId |-> UnitId(MissingId), team |-> RED],
          [type |-> "attack", unitIds |-> UnitsOf(state, BLUE) \o <<MissingId>> \o UnitsOf(state, RED),
           targetId |-> BldId(Len(state.sectors) - 1), team |-> RED] >>,
       \* a building that does not exist and a building of the other team
       << [type |-> "produce", buildingId |-> MissingId, unitType |-> "grunt", team |-> RED],
          [type |-> "produce", buildingId |-> Len(state.sectors) - 1, unitType |-> "grunt",
           team |-> RED],
          [type |-> "select", unitIds |-> UnitsOf(state, RED), buildingId |-> NullId,
           team |-> RED] >>,
       \* an attack and then a move for the same units
       << [type |-> "attack", unitIds |-> UnitsOf(state, RED),
           targetId |-> FirstUnitOf(state, BLUE), team |-> RED],
          [type |-> "move", unitIds |-> UnitsOf(state, RED),
           targetX |-> mid.flagX, targetY |-> mid.flagY, team |-> RED] >>,
       \* a target id that is neither a unit nor a building but an inherited name
       << [type |-> "attack", unitIds |-> UnitsOf(state, RED),
           targetId |-> ProtoId, team |-> RED] >>,
       << [type |-> "select", unitIds |-> UnitsOf(state, BLUE), buildingId |-> NullId,
           team |-> BLUE],
          [type |-> "boxSelect", left |-> 0, top |-> 0, right |-> mid.flagX,
           bottom |-> worldHeight, team |-> RED] >> }

CommandTime(state) == state.tick % CommandEvery = 0 \/ ~state.isRunning

-----------------------------------------------------------------------------
(* SpecEngine: one GameEngine driven by direct tick() calls *)

NoNetwork ==
  /\ loop = <<>> /\ commandQueue = <<>> /\ consumed = <<>>
  /\ rooms = <<>> /\ playerToRoom = <<>> /\ conn = <<>>
  /\ c2s = <<>> /\ s2c = <<>> /\ relayLog = <<>>

InitEngine ==
  /\ \E sc \in Scenarios, mp \in BOOLEAN :
       engine = (1 :> [state |-> sc, isMultiplayer |-> mp])
  /\ stage = (1 :> NoStage)
  /\ budget = [commands |-> MaxCommands]
  /\ NoNetwork

\* engine.tick(commands)
DirectTick(i, commands, s) ==
  LET e == engine[i]
      Apply(st) ==
        /\ engine' = [engine EXCEPT ![i].state = st.final]
        /\ stage' = [stage EXCEPT ![i] = StageView(e.state, commands, st)]
  IN /\ e.state.tick < MaxTick
     /\ \/ commands = <<>> /\ budget' = budget
        \/ /\ budget.commands > 0
           /\ CommandTime(e.state)
           /\ commands \in CommandPool(e.state)
           /\ budget' = [budget EXCEPT !.commands = @ - 1]
     /\ Apply(TickStages(e.state, e.isMultiplayer, commands, s))
     /\ UNCHANGED <<loop, commandQueue, consumed, rooms, playerToRoom, conn,
                    c2s, s2c, relayLog>>

NextEngine ==
  \E i \in DOMAIN engine, s \in RandomStreams :
    \E commands \in {<<>>} \cup CommandPool(engine[i].state) :
      DirectTick(i, commands, s)

SpecEngine == InitEngine /\ [][NextEngine]_vars

-----------------------------------------------------------------------------
(* SpecPair: two engines created from the same initial state and handed, tick *)
(* for tick, the same commands.  They run independently, so each draws its    *)
(* own Math.random() values.                                                  *)

\* the pair is run to just past the first AI decision (tick 30)
PairMaxTick == 32

InitPair ==
  /\ \E sc \in Scenarios, mp \in BOOLEAN :
       engine = [i \in {1, 2} |-> [state |-> sc, isMultiplayer |-> mp]]
  /\ stage = [i \in {1, 2} |-> NoStage]
  /\ budget = [commands |-> MaxCommands]
  /\ NoNetwork

\* engine1.tick(commands); engine2.tick(commands)
PairTick(commands, s1, s2) ==
  LET Apply(st) ==
        /\ engine' = [i \in {1, 2} |-> [engine[i] EXCEPT !.state = st[i].final]]
        /\ stage' = [i \in {1, 2} |-> StageView(engine[i].state, commands, st[i])]
  IN /\ engine[1].state.tick < PairMaxTick
     /\ \/ commands = <<>> /\ budget' = budget
        \/ /\ budget.commands > 0
           /\ CommandTime(engine[1].state)
           /\ commands \in CommandPool(engine[1].state)
           /\ budget' = [budget EXCEPT !.commands = @ - 1]
     /\ Apply([i \in {1, 2} |->
                 TickStages(engine[i].state, engine[i].isMultiplayer, commands,
                            IF i = 1 THEN s1 ELSE s2)])
     /\ UNCHANGED <<loop, commandQueue, consumed, rooms, playerToRoom, conn,
                    c2s, s2c, relayLog>>

NextPair ==
  \E s1 \in RandomStreams, s2 \in RandomStreams :
    \E commands \in {<<>>} \cup CommandPool(engine[1].state) :
      PairTick(commands, s1, s2)

SpecPair == InitPair /\ [][NextPair]_vars

-----------------------------------------------------------------------------
(* The relay (server/index.ts), network/protocol.ts and NetworkManager.ts.    *)
(* A connection is named by the client that opened it; the relay's playerId   *)
(* p<n> is the number n.  c2s[c] and s2c[c] are the two directions of the     *)
(* WebSocket of client c, each delivered in order; the close of a socket      *)
(* travels to the relay behind the messages sent before it.                   *)

TURN_INTERVAL == 15

Clients      == {1, 2}     \* client 1 creates the room, client 2 joins it
NumRoomCodes == 1          \* room codes generateRoomCode() draws from
NumSeeds     == 1          \* seeds createRoom draws from
MaxTurns     == 2          \* turn windows a client runs
MaxInputs    == 2          \* commands the two players enqueue
MaxCloses    == 1          \* browser tabs closed during the match
InputEvery   == 7          \* the players act on every InputEvery-th frame of a turn

CodePool  == << "ABCD", "WXYZ", "HJKL", "MNPQ", "RSTU" >>
TypedPool == << "abcd", "wxyz", "hjkl", "mnpq", "rstu" >>

\* generateRoomCode(): a code no room has; the model draws from the first
\* NumRoomCodes codes of the pool that are free
FreeCodes(taken) ==
  {CodePool[i] : i \in {j \in 1..Len(CodePool) :
     /\ CodePool[j] \notin taken
     /\ Cardinality({k \in 1..j : CodePool[k] \notin taken}) <= NumRoomCodes}}
Seeds     == 1..NumSeeds

\* String.prototype.toUpperCase on the codes a player may type
toUpperCase(code) ==
  IF \E i \in 1..Len(TypedPool) : TypedPool[i] = code
  THEN CodePool[CHOOSE i \in 1..Len(TypedPool) : TypedPool[i] = code]
  ELSE code

\* the spellings in which a player may type the code shown to the host
TypedCodes(code) ==
  {code} \cup {TypedPool[i] : i \in {j \in 1..Len(CodePool) : CodePool[j] = code}}

ClientMessage(type) ==
  [type |-> type, roomCode |-> "", turn |-> -1, commands |-> <<>>]

ServerMessage(type) ==
  [type |-> type, roomCode |-> "", team |-> NONE, seed |-> 0, turnInterval |-> 0,
   turn |-> -1, commands |-> <<>>, message |-> ""]

\* nextPlayerId: one id per connection ever accepted
nextPlayerId == Cardinality({c \in DOMAIN conn : conn[c].status # "none"})

\* send(ws, msg): dropped unless the socket is open
send(chan, c, msg) ==
  IF conn[c].status = "open" THEN [chan EXCEPT ![c] = Append(@, msg)] ELSE chan

Sockets(room) == {room.players[i].ws : i \in 1..Len(room.players)}

\* broadcast(room, msg)
broadcast(chan, room, msg) ==
  [c \in DOMAIN chan |->
     IF c \in Sockets(room) /\ conn[c].status = "open"
     THEN Append(chan[c], msg) ELSE chan[c]]

Remove(f, k) == [x \in DOMAIN f \ {k} |-> f[x]]

\* Map.prototype.set on the per-turn accumulator: a new key goes last, an
\* existing key keeps its place
SetTurnCommands(turnCommands, playerId, commands) ==
  IF \E i \in 1..Len(turnCommands) : turnCommands[i].playerId = playerId
  THEN [i \in 1..Len(turnCommands) |->
          IF turnCommands[i].playerId = playerId
          THEN [playerId |-> playerId, commands |-> commands]
          ELSE turnCommands[i]]
  ELSE Append(turnCommands, [playerId |-> playerId, commands |-> commands])

\* a turn is broadcast after the first submission already
AnySubmitted(turnCommands) == Len(turnCommands) >= 1

\* line 123
BothSubmitted(turnCommands) == Len(turnCommands) >= 2

\* lines 125-128
RECURSIVE AllCommands(_)
AllCommands(turnCommands) ==
  IF turnCommands = <<>> THEN <<>>
  ELSE Head(turnCommands).commands \o AllCommands(Tail(turnCommands))

\* JSON.parse(data) returns: the text is JSON
Parses(data) == "text" \notin DOMAIN data

\* the switch of line 59 reads msg.type: a TypeError when msg is null
IsNull(data) == "json" \in DOMAIN data /\ data.json = "null"

\* msg.type, or the empty string when msg.type is undefined
TypeOf(data) == IF "type" \in DOMAIN data THEN data.type ELSE ""

\* line 79 calls toUpperCase on msg.roomCode: a TypeError when it is undefined
LacksRoomCode(data) == TypeOf(data) = "joinRoom" /\ "roomCode" \notin DOMAIN data

\* (msg.commands as unknown[]) || []
CommandsOf(msg) == IF "commands" \in DOMAIN msg THEN msg.commands ELSE <<>>

Receivable(c, type) ==
  /\ c2s[c] # <<>>
  /\ TypeOf(Head(c2s[c])) = type

\* Map.prototype.set on room.players: a new key goes last, an existing key
\* keeps its place
SetPlayer(players, playerId, ws) ==
  IF \E i \in 1..Len(players) : players[i].playerId = playerId
  THEN [i \in 1..Len(players) |->
          IF players[i].playerId = playerId
          THEN [playerId |-> playerId, ws |-> ws] ELSE players[i]]
  ELSE Append(players, [playerId |-> playerId, ws |-> ws])

\* a relay that lets a second player into a room whose game has started
NeverStarted(room) == FALSE

\* line 90
IsStarted(room) == room.started

\* case 'createRoom'
RelayCreateRoom(c) ==
  /\ Receivable(c, "createRoom")
  /\ \E code \in FreeCodes(DOMAIN rooms), seed \in Seeds :
       /\ rooms' = rooms @@ (code :>
            [code |-> code, seed |-> seed,
             players |-> << [playerId |-> conn[c].playerId, ws |-> c] >>,
             teamAssignment |-> (conn[c].playerId :> RED),
             currentTurn |-> 0, turnCommands |-> <<>>, started |-> FALSE])
       /\ playerToRoom' = (c :> code) @@ playerToRoom
       /\ s2c' = send(s2c, c, [ServerMessage("roomCreated") EXCEPT
                                 !.roomCode = code, !.team = RED])
  /\ c2s' = [c2s EXCEPT ![c] = Tail(@)]
  /\ UNCHANGED <<engine, loop, commandQueue, stage, consumed, conn, relayLog, budget>>

\* case 'joinRoom'
RelayJoinRoom(c) ==
  /\ Receivable(c, "joinRoom")
  /\ ~LacksRoomCode(Head(c2s[c]))
  /\ LET code == toUpperCase(Head(c2s[c]).roomCode)
         error(message) ==
           /\ s2c' = send(s2c, c, [ServerMessage("error") EXCEPT !.message = message])
           /\ UNCHANGED <<rooms, playerToRoom>>
     IN IF code \notin DOMAIN rooms THEN error("Room not found")
        ELSE IF Len(rooms[code].players) >= 2 THEN error("Room is full")
        ELSE IF IsStarted(rooms[code]) THEN error("Game already started")
        ELSE LET room == [rooms[code] EXCEPT
                            !.players = SetPlayer(@, conn[c].playerId, c),
                            !.teamAssignment = (conn[c].playerId :> BLUE) @@ @,
                            !.started = TRUE]
                 joined == send(s2c, c, [ServerMessage("roomJoined") EXCEPT
                                           !.roomCode = code, !.team = BLUE])
             IN /\ rooms' = [rooms EXCEPT ![code] = room]
                /\ playerToRoom' = (c :> code) @@ playerToRoom
                /\ s2c' = broadcast(joined, room,
                            [ServerMessage("gameStart") EXCEPT
                               !.seed = room.seed, !.turnInterval = TURN_INTERVAL])
  /\ c2s' = [c2s EXCEPT ![c] = Tail(@)]
  /\ UNCHANGED <<engine, loop, commandQueue, stage, consumed, conn, relayLog, budget>>

\* case 'turnCommands'.  relayLog keeps the submissions handled since the last
\* broadcast, the submissions the last broadcast merged, that broadcast, and
\* the tags of all broadcasts.
RelayTurnCommands(c) ==
  /\ Receivable(c, "turnCommands")
  /\ c2s' = [c2s EXCEPT ![c] = Tail(@)]
  /\ UNCHANGED <<engine, loop, commandQueue, stage, consumed, conn, playerToRoom, budget>>
  /\ IF c \notin DOMAIN playerToRoom THEN UNCHANGED <<rooms, s2c, relayLog>>
     ELSE IF playerToRoom[c] \notin DOMAIN rooms \/ ~rooms[playerToRoom[c]].started
     THEN UNCHANGED <<rooms, s2c, relayLog>>
     ELSE
       LET msg  == Head(c2s[c])
           code == playerToRoom[c]
           room == rooms[code]
           turnCommands == SetTurnCommands(room.turnCommands, conn[c].playerId,
                                           CommandsOf(msg))
           handled == Append(relayLog.pending,
                        [playerId |-> conn[c].playerId,
                         turn |-> IF "turn" \in DOMAIN msg THEN msg.turn ELSE -1,
                         commands |-> CommandsOf(msg),
                         registered |-> Len(room.players)])
       IN IF BothSubmitted(turnCommands)
          THEN /\ s2c' = broadcast(s2c, room,
                           [ServerMessage("turnData") EXCEPT
                              !.turn = room.currentTurn,
                              !.commands = AllCommands(turnCommands)])
               /\ rooms' = [rooms EXCEPT ![code].turnCommands = <<>>,
                                         ![code].currentTurn = @ + 1]
               /\ relayLog' = [pending |-> <<>>, merged |-> handled,
                               turnData |-> << [turn |-> room.currentTurn,
                                                commands |-> AllCommands(turnCommands)] >>,
                               tags |-> Append(relayLog.tags, room.currentTurn)]
          ELSE /\ rooms' = [rooms EXCEPT ![code].turnCommands = turnCommands]
               /\ relayLog' = [relayLog EXCEPT !.pending = handled]
               /\ s2c' = s2c

\* handleDisconnect(ws, playerId)
handleDisconnect(c) ==
  IF c \notin DOMAIN playerToRoom THEN UNCHANGED <<rooms, playerToRoom, s2c>>
  ELSE IF playerToRoom[c] \notin DOMAIN rooms THEN UNCHANGED <<rooms, playerToRoom, s2c>>
  ELSE
    LET code == playerToRoom[c]
        room == [rooms[code] EXCEPT
                   !.players = SelectSeq(@, LAMBDA p : p.playerId # conn[c].playerId),
                   !.teamAssignment = Remove(@, conn[c].playerId)]
    IN /\ playerToRoom' = Remove(playerToRoom, c)
       /\ s2c' = broadcast(s2c, room, ServerMessage("opponentDisconnected"))
       /\ rooms' = IF room.players = <<>> THEN Remove(rooms, code)
                   ELSE [rooms EXCEPT ![code] = room]

\* case 'leave'
RelayLeave(c) ==
  /\ Receivable(c, "leave")
  /\ handleDisconnect(c)
  /\ c2s' = [c2s EXCEPT ![c] = Tail(@)]
  /\ UNCHANGED <<engine, loop, commandQueue, stage, consumed, conn, relayLog, budget>>

\* ws.on('close')
RelayClose(c) ==
  /\ Receivable(c, "close")
  /\ handleDisconnect(c)
  /\ c2s' = [c2s EXCEPT ![c] = Tail(@)]
  /\ UNCHANGED <<engine, loop, commandQueue, stage, consumed, conn, relayLog, budget>>

\* the cases of the switch of line 59, and the close event of the socket
Handled == {"createRoom", "joinRoom", "turnCommands", "leave", "close"}

\* lines 53-57 and the fall through the switch: a text that is not JSON, or
\* JSON whose type is none of the cases, is dropped
RelayIgnore(c) ==
  /\ c2s[c] # <<>>
  /\ \/ ~Parses(Head(c2s[c]))
     \/ /\ ~IsNull(Head(c2s[c]))
        /\ TypeOf(Head(c2s[c])) \notin Handled
  /\ c2s' = [c2s EXCEPT ![c] = Tail(@)]
  /\ UNCHANGED <<engine, loop, commandQueue, stage, consumed, rooms, playerToRoom,
                 conn, s2c, relayLog, budget>>

\* the relay process is running: no socket was lost to its exit
RelayUp == \A c \in DOMAIN conn : conn[c].status # "lost"

\* a TypeError thrown out of handleMessage into the 'message' listener of
\* line 183, which has no try: either the emitter contains it and the message
\* is dropped, or it is uncaught and the process exits with all its rooms
\* and sockets
RelayThrow(c) ==
  /\ c2s[c] # <<>>
  /\ Parses(Head(c2s[c]))
  /\ IsNull(Head(c2s[c])) \/ LacksRoomCode(Head(c2s[c]))
  /\ \/ /\ c2s' = [c2s EXCEPT ![c] = Tail(@)]
        /\ UNCHANGED <<rooms, playerToRoom, conn>>
     \/ /\ c2s' = [k \in DOMAIN c2s |-> <<>>]
        /\ rooms' = <<>>
        /\ playerToRoom' = <<>>
        /\ conn' = [k \in DOMAIN conn |->
                      IF k = c \/ conn[k].status = "open"
                      THEN [conn[k] EXCEPT !.status = "lost"] ELSE conn[k]]
  /\ UNCHANGED <<engine, loop, commandQueue, stage, consumed, s2c, relayLog, budget>>

-----------------------------------------------------------------------------
(* The client: App.tsx, LobbyScreen.tsx, NetworkManager.ts and the lockstep   *)
(* loop of GameScreen.tsx.  loop[c] holds the screen of client c and the      *)
(* closure variables of its multiplayerLoop.                                  *)

\* turnDataReceived: null, or the merged commands of a turn
NullData == [present |-> FALSE, commands |-> <<>>]

StartScreen ==
  [screen |-> "start", isHost |-> FALSE, code |-> "", localTeam |-> RED, seed |-> 0,
   currentTurn |-> 0, frameInTurn |-> 0, waitingForTurnData |-> FALSE,
   turnDataReceived |-> NullData, localCommandsThisTurn |-> <<>>,
   opponentDisconnected |-> FALSE]

\* createInitialState(seed): the seed selects the map
ScenarioOf(seed) == IF seed % 2 = 1 THEN ScenarioDuel ELSE ScenarioCapture

\* NetworkManager.send
clientSend(c, msg) ==
  IF conn[c].status = "open" THEN [c2s EXCEPT ![c] = Append(@, msg)] ELSE c2s

\* a client that sends every submission twice
submitTurnCommandsTwice(c, turn, commands) ==
  IF conn[c].status = "open"
  THEN [c2s EXCEPT ![c] = @ \o
          << [ClientMessage("turnCommands") EXCEPT !.turn = turn, !.commands = commands],
             [ClientMessage("turnCommands") EXCEPT !.turn = turn, !.commands = commands] >>]
  ELSE c2s

\* NetworkManager.submitTurnCommands
submitTurnCommands(c, turn, commands) ==
  clientSend(c, [ClientMessage("turnCommands") EXCEPT !.turn = turn, !.commands = commands])

Deliverable(c, type) ==
  /\ conn[c].status = "open"
  /\ s2c[c] # <<>>
  /\ Head(s2c[c]).type = type

\* handleCreateGame / handleJoinGame, then the setup of LobbyScreen: connect,
\* register the callbacks, createRoom or joinRoom(code)
OpenLobby(c) ==
  /\ loop[c].screen = "start"
  /\ conn[c].status = "none"
  /\ conn' = [conn EXCEPT ![c] = [status |-> "open", playerId |-> nextPlayerId]]
  /\ loop' = [loop EXCEPT ![c].screen = "lobby", ![c].isHost = (c = 1)]
  /\ IF c = 1
     THEN c2s' = [c2s EXCEPT ![c] = Append(@, ClientMessage("createRoom"))]
     ELSE /\ loop[1].code # ""
          /\ \E typed \in TypedCodes(loop[1].code) :
               c2s' = [c2s EXCEPT ![c] = Append(@,
                         [ClientMessage("joinRoom") EXCEPT !.roomCode = toUpperCase(typed)])]
  /\ UNCHANGED <<engine, commandQueue, stage, consumed, rooms, playerToRoom,
                 s2c, relayLog, budget>>

\* case 'roomCreated'
ClientRoomCreated(c) ==
  /\ Deliverable(c, "roomCreated")
  /\ loop' = [loop EXCEPT ![c].localTeam = Head(s2c[c]).team,
                          ![c].code = Head(s2c[c]).roomCode]
  /\ s2c' = [s2c EXCEPT ![c] = Tail(@)]
  /\ UNCHANGED <<engine, commandQueue, stage, consumed, rooms, playerToRoom,
                 conn, c2s, relayLog, budget>>

\* case 'roomJoined'
ClientRoomJoined(c) ==
  /\ Deliverable(c, "roomJoined")
  /\ loop' = [loop EXCEPT ![c].localTeam = Head(s2c[c]).team]
  /\ s2c' = [s2c EXCEPT ![c] = Tail(@)]
  /\ UNCHANGED <<engine, commandQueue, stage, consumed, rooms, playerToRoom,
                 conn, c2s, relayLog, budget>>

\* case 'gameStart': handleGameStart shows GameScreen, whose effect creates
\* the engine, registers onTurnData and submits the empty turn 0
ClientGameStart(c) ==
  /\ Deliverable(c, "gameStart")
  /\ loop' = [loop EXCEPT ![c] = [@ EXCEPT
                !.screen = "playing", !.seed = Head(s2c[c]).seed,
                !.currentTurn = 0, !.frameInTurn = 0,
                !.turnDataReceived = NullData, !.localCommandsThisTurn = <<>>,
                !.waitingForTurnData = TRUE]]
  /\ engine' = (c :> [state |-> ScenarioOf(Head(s2c[c]).seed), isMultiplayer |-> TRUE])
                 @@ engine
  /\ stage' = (c :> NoStage) @@ stage
  /\ c2s' = submitTurnCommands(c, 0, <<>>)
  /\ s2c' = [s2c EXCEPT ![c] = Tail(@)]
  /\ UNCHANGED <<commandQueue, consumed, rooms, playerToRoom, conn, relayLog, budget>>

\* a client that adds its unsent local commands to the merged batch
ReceivedWithLocal(l, commands) ==
  [l EXCEPT !.turnDataReceived =
               [present |-> TRUE, commands |-> commands \o l.localCommandsThisTurn],
            !.waitingForTurnData = FALSE]

\* a callback that stores the batch and keeps the client waiting
ReceivedStillWaiting(l, commands) ==
  [l EXCEPT !.turnDataReceived = [present |-> TRUE, commands |-> commands]]

\* the onTurnData callback of GameScreen
ReceivedTurnData(l, commands) ==
  [l EXCEPT !.turnDataReceived = [present |-> TRUE, commands |-> commands],
            !.waitingForTurnData = FALSE]

\* case 'turnData'
ClientTurnData(c) ==
  /\ Deliverable(c, "turnData")
  /\ loop[c].screen = "playing"
  /\ loop' = [loop EXCEPT ![c] = ReceivedTurnData(@, Head(s2c[c]).commands)]
  /\ consumed' = [consumed EXCEPT ![c].received =
                    Append(@, [turn |-> Head(s2c[c]).turn,
                               commands |-> Head(s2c[c]).commands])]
  /\ s2c' = [s2c EXCEPT ![c] = Tail(@)]
  /\ UNCHANGED <<engine, commandQueue, stage, rooms, playerToRoom, conn, c2s,
                 relayLog, budget>>

\* case 'opponentDisconnected': a toast, and onGameOver two seconds later
ClientOpponentDisconnected(c) ==
  /\ Deliverable(c, "opponentDisconnected")
  /\ loop[c].screen = "playing"
  /\ loop' = [loop EXCEPT ![c].opponentDisconnected = TRUE]
  /\ s2c' = [s2c EXCEPT ![c] = Tail(@)]
  /\ UNCHANGED <<engine, commandQueue, stage, consumed, rooms, playerToRoom,
                 conn, c2s, relayLog, budget>>

\* the timer of onOpponentDisconnected fires: handleGameOver leaves GameScreen
OpponentTimeout(c) ==
  /\ loop[c].screen = "playing"
  /\ loop[c].opponentDisconnected
  /\ loop' = [loop EXCEPT ![c].screen = "gameover", ![c].opponentDisconnected = FALSE]
  /\ UNCHANGED <<engine, commandQueue, stage, consumed, rooms, playerToRoom,
                 conn, c2s, s2c, relayLog, budget>>

\* handleRestart: NetworkManager.disconnect sends leave and closes the socket
Restart(c) ==
  /\ loop[c].screen = "gameover"
  /\ conn[c].status = "open"
  /\ c2s' = [c2s EXCEPT ![c] = @ \o << ClientMessage("leave"), ClientMessage("close") >>]
  /\ conn' = [conn EXCEPT ![c].status = "closed"]
  /\ loop' = [loop EXCEPT ![c].screen = "start"]
  /\ UNCHANGED <<engine, commandQueue, stage, consumed, rooms, playerToRoom,
                 s2c, relayLog, budget>>

\* the player closes the browser tab during the match
CloseTab(c) ==
  /\ loop[c].screen = "playing"
  /\ conn[c].status = "open"
  /\ budget.closes > 0
  /\ loop[c].frameInTurn % InputEvery = 0
  /\ budget' = [budget EXCEPT !.closes = @ - 1]
  /\ c2s' = [c2s EXCEPT ![c] = Append(@, ClientMessage("close"))]
  /\ conn' = [conn EXCEPT ![c].status = "closed"]
  /\ loop' = [loop EXCEPT ![c].screen = "closed"]
  /\ UNCHANGED <<engine, commandQueue, stage, consumed, rooms, playerToRoom,
                 s2c, relayLog>>

\* commands the input handler of a player builds for the player's own team
InputPool(state, team) ==
  LET enemy == IF team = RED THEN BLUE ELSE RED
      goal  == IF team = RED THEN state.sectors[Len(state.sectors)] ELSE state.sectors[1]
  IN { [type |-> "move", unitIds |-> UnitsOf(state, team),
        targetX |-> goal.flagX, targetY |-> goal.flagY, team |-> team],
       [type |-> "attack", unitIds |-> UnitsOf(state, team),
        targetId |-> FirstUnitOf(state, enemy), team |-> team] }

\* commandQueue.enqueue(command)
Enqueue(c, command) ==
  /\ loop[c].screen = "playing"
  /\ budget.inputs > 0
  /\ loop[c].frameInTurn % InputEvery = 0
  /\ command \in InputPool(engine[c].state, loop[c].localTeam)
  /\ budget' = [budget EXCEPT !.inputs = @ - 1]
  /\ commandQueue' = [commandQueue EXCEPT ![c] = Append(@, command)]
  /\ UNCHANGED <<engine, loop, stage, consumed, rooms, playerToRoom, conn,
                 c2s, s2c, relayLog>>

\* a queue that drain() leaves as it was
drainKeeps(queue) == [cmds |-> queue, queue |-> queue]

\* CommandQueue.drain(): the commands returned and the queue left
drain(queue) == [cmds |-> queue, queue |-> <<>>]

\* a loop that runs one tick fewer per window
turnIntervalShort == TURN_INTERVAL - 1

\* line 167
turnInterval == TURN_INTERVAL

\* a loop that hands the merged commands to every tick of the window
TickCommandsEveryTick(i, combined) == combined

\* line 203
TickCommands(i, combined) == IF i = 0 THEN combined ELSE <<>>

\* lines 202-205: the for loop after its first n iterations, as the set that
\* holds the one outcome: the engine state and the arguments of each tick()
\* call so far
RECURSIVE RunTicks(_, _, _, _)
RunTicks(state, combined, n, s) ==
  IF n <= 0 THEN { [state |-> state, calls |-> <<>>] }
  ELSE { LET after == tick(w.state, TRUE, TickCommands(n - 1, combined), s)
         IN [state |-> after,
             calls |-> Append(w.calls, [tick |-> w.state.tick,
                                        commands |-> TickCommands(n - 1, combined),
                                        events |-> after.events])] :
           w \in RunTicks(state, combined, n - 1, s) }

\* one animation frame of multiplayerLoop; the ticks of a window draw their
\* random numbers from stream s
multiplayerLoop(c, s) ==
  LET l == loop[c]
      newCommands == drain(commandQueue[c])
      local == l.localCommandsThisTurn \o newCommands.cmds
      has == l.turnDataReceived.present
      currentTurn == IF has THEN l.currentTurn + 1 ELSE l.currentTurn
      frameInTurn == (IF has THEN 0 ELSE l.frameInTurn)
                       + (IF l.waitingForTurnData THEN 0 ELSE 1)
      submits == ~l.waitingForTurnData /\ frameInTurn >= turnInterval
      Ticked(window) ==
        /\ engine' = [engine EXCEPT ![c].state = window.state]
        /\ consumed' = [consumed EXCEPT
                          ![c].windows = Append(@, [turn |-> l.currentTurn,
                                                    firstTick |-> window.calls[1].tick,
                                                    commands |-> window.calls[1].commands]),
                          ![c].calls = window.calls,
                          \* line 207: handleEvents(engine.state)
                          ![c].heard = window.state.events]
  IN /\ l.screen = "playing"
     /\ engine[c].isMultiplayer
     /\ l.currentTurn < MaxTurns
     /\ IF ~engine[c].state.isRunning
        THEN /\ loop' = [loop EXCEPT ![c].screen = "gameover"]
             /\ UNCHANGED <<engine, commandQueue, consumed, c2s>>
        ELSE /\ commandQueue' = [commandQueue EXCEPT ![c] = newCommands.queue]
             /\ IF has
                THEN \E window \in RunTicks(engine[c].state, l.turnDataReceived.commands,
                                              turnInterval, s) : Ticked(window)
                ELSE UNCHANGED <<engine, consumed>>
             /\ loop' = [loop EXCEPT ![c] = [@ EXCEPT
                  !.turnDataReceived = NullData,
                  !.currentTurn = currentTurn,
                  !.frameInTurn = IF submits THEN 0 ELSE frameInTurn,
                  !.waitingForTurnData = IF submits THEN TRUE ELSE @,
                  !.localCommandsThisTurn = IF submits THEN <<>> ELSE local]]
             /\ c2s' = IF submits THEN submitTurnCommands(c, currentTurn, local) ELSE c2s
     /\ UNCHANGED <<stage, rooms, playerToRoom, conn, s2c, relayLog, budget>>

InitNet ==
  /\ engine = <<>>
  /\ stage = <<>>
  /\ loop = [c \in Clients |-> StartScreen]
  /\ commandQueue = [c \in Clients |-> <<>>]
  /\ consumed = [c \in Clients |-> [received |-> <<>>, windows |-> <<>>, calls |-> <<>>,
                                    heard |-> <<>>]]
  /\ rooms = <<>>
  /\ playerToRoom = <<>>
  /\ conn = [c \in Clients |-> [status |-> "none", playerId |-> -1]]
  /\ c2s = [c \in Clients |-> <<>>]
  /\ s2c = [c \in Clients |-> <<>>]
  /\ relayLog = [pending |-> <<>>, merged |-> <<>>, turnData |-> <<>>, tags |-> <<>>]
  /\ budget = [inputs |-> MaxInputs, closes |-> MaxCloses]

NextNet ==
  \E c \in Clients :
    \/ OpenLobby(c)
    \/ RelayCreateRoom(c)
    \/ RelayJoinRoom(c)
    \/ RelayTurnCommands(c)
    \/ RelayLeave(c)
    \/ RelayClose(c)
    \/ ClientRoomCreated(c)
    \/ ClientRoomJoined(c)
    \/ ClientGameStart(c)
    \/ ClientTurnData(c)
    \/ ClientOpponentDisconnected(c)
    \/ OpponentTimeout(c)
    \/ Restart(c)
    \/ CloseTab(c)
    \/ \E command \in InputPool(ScenarioDuel, RED) \cup InputPool(ScenarioDuel, BLUE)
                        \cup InputPool(ScenarioCapture, RED)
                        \cup InputPool(ScenarioCapture, BLUE) : Enqueue(c, command)
    \/ \E s \in RandomStreams : multiplayerLoop(c, s)

SpecNet == InitNet /\ [][NextNet]_vars

-----------------------------------------------------------------------------
(* SpecLive: the networked match of SpecNet with both peers staying connected *)
(* (no tab is closed, nobody leaves), every sent message eventually delivered *)
(* and handled, and every animation frame eventually run.                     *)

InitLive ==
  /\ engine = <<>>
  /\ stage = <<>>
  /\ loop = [c \in Clients |-> StartScreen]
  /\ commandQueue = [c \in Clients |-> <<>>]
  /\ consumed = [c \in Clients |-> [received |-> <<>>, windows |-> <<>>, calls |-> <<>>,
                                    heard |-> <<>>]]
  /\ rooms = <<>>
  /\ playerToRoom = <<>>
  /\ conn = [c \in Clients |-> [status |-> "none", playerId |-> -1]]
  /\ c2s = [c \in Clients |-> <<>>]
  /\ s2c = [c \in Clients |-> <<>>]
  /\ relayLog = [pending |-> <<>>, merged |-> <<>>, turnData |-> <<>>, tags |-> <<>>]
  /\ budget = [inputs |-> MaxInputs, closes |-> 0]

\* the relay receives and handles the next message of client c
RelayStep(c) == RelayCreateRoom(c) \/ RelayJoinRoom(c) \/ RelayTurnCommands(c)

\* client c receives and handles the next message of the relay
ClientStep(c) ==
  \/ ClientRoomCreated(c)
  \/ ClientRoomJoined(c)
  \/ ClientGameStart(c)
  \/ ClientTurnData(c)

\* requestAnimationFrame calls multiplayerLoop of client c
Frame(c) == \E s \in RandomStreams : multiplayerLoop(c, s)

PlayerInput(c) ==
  \E command \in InputPool(ScenarioDuel, RED) \cup InputPool(ScenarioDuel, BLUE)
                   \cup InputPool(ScenarioCapture, RED)
                   \cup InputPool(ScenarioCapture, BLUE) : Enqueue(c, command)

NextLive ==
  \E c \in Clients :
    \/ OpenLobby(c)
    \/ RelayStep(c)
    \/ ClientStep(c)
    \/ PlayerInput(c)
    \/ Frame(c)

\* a message is received and handled
Delivery == \E c \in Clients : RelayStep(c) \/ ClientStep(c)

\* multiplayerLoop of client c can run and change something: the game is
\* over, the queue holds a command, a batch has arrived, or the client counts
\* the frames to its next submission
FrameDue(c) ==
  /\ loop[c].screen = "playing"
  /\ c \in DOMAIN engine
  /\ engine[c].isMultiplayer
  /\ loop[c].currentTurn < MaxTurns
  /\ \/ ~engine[c].state.isRunning
     \/ commandQueue[c] # <<>>
     \/ loop[c].turnDataReceived.present
     \/ ~loop[c].waitingForTurnData

\* weak fairness of Frame(c), with FrameDue(c) for ENABLED <<Frame(c)>>_vars
FrameFair(c) == []<>(~FrameDue(c)) \/ []<><<Frame(c)>>_vars

\* every message is eventually handled and the browser keeps calling the
\* animation frames
SpecLive ==
  /\ InitLive
  /\ [][NextLive]_vars
  /\ WF_vars(Delivery)
  /\ \A c \in Clients : FrameFair(c)

-----------------------------------------------------------------------------
(* The two game loops of GameScreen: the networked match of SpecNet, or a     *)
(* single-player game of client 1.                                            *)

SoloMaxTick == 6           \* frames of the single-player game

\* one animation frame of singlePlayerLoop
singlePlayerLoop(c, s) ==
  LET state == engine[c].state
      commands == drain(commandQueue[c])
  IN /\ loop[c].screen = "playing"
     /\ ~engine[c].isMultiplayer
     /\ state.tick < SoloMaxTick
     /\ IF ~state.isRunning
        THEN /\ loop' = [loop EXCEPT ![c].screen = "gameover"]
             /\ UNCHANGED <<engine, commandQueue, consumed>>
        ELSE /\ commandQueue' = [commandQueue EXCEPT ![c] = commands.queue]
             /\ engine' = [engine EXCEPT ![c].state = tick(state, FALSE, commands.cmds, s)]
             /\ consumed' = [consumed EXCEPT
                               ![c].calls = << [tick |-> state.tick,
                                                commands |-> commands.cmds,
                                                events |-> engine'[c].state.events] >>,
                               \* line 244: handleEvents(newState)
                               ![c].heard = engine'[c].state.events]
             /\ loop' = loop
     /\ UNCHANGED <<stage, rooms, playerToRoom, conn, c2s, s2c, relayLog, budget>>

\* handleStartGame of App.tsx in single-player mode: GameScreen with a new
\* engine and an empty queue, no network
InitSolo ==
  /\ \E seed \in Seeds :
       engine = (1 :> [state |-> ScenarioOf(seed), isMultiplayer |-> FALSE])
  /\ stage = (1 :> NoStage)
  /\ loop = [c \in Clients |->
               [StartScreen EXCEPT !.screen = IF c = 1 THEN "playing" ELSE "closed"]]
  /\ commandQueue = [c \in Clients |-> <<>>]
  /\ consumed = [c \in Clients |-> [received |-> <<>>, windows |-> <<>>, calls |-> <<>>,
                                    heard |-> <<>>]]
  /\ rooms = <<>>
  /\ playerToRoom = <<>>
  /\ conn = [c \in Clients |-> [status |-> "none", playerId |-> -1]]
  /\ c2s = [c \in Clients |-> <<>>]
  /\ s2c = [c \in Clients |-> <<>>]
  /\ relayLog = [pending |-> <<>>, merged |-> <<>>, turnData |-> <<>>, tags |-> <<>>]
  /\ budget = [inputs |-> MaxInputs, closes |-> 0]

NextLoops ==
  \/ NextNet
  \/ \E c \in Clients, s \in RandomStreams : singlePlayerLoop(c, s)

SpecLoops == (InitNet \/ InitSolo) /\ [][NextLoops]_vars

-----------------------------------------------------------------------------
(* The relay alone, facing peers that may send any text over their socket.    *)

NumPeers == 2              \* sockets the relay accepts
MaxSends == 4              \* texts the peers send

Peers == 1..NumPeers

\* the texts a peer sends: the messages of network/protocol.ts with a room
\* code typed in either case or a code no room has, and texts that are no
\* message of the protocol
WirePool(c) ==
  { ClientMessage("createRoom"), ClientMessage("leave"),
    [ClientMessage("turnCommands") EXCEPT
       !.turn = 0, !.commands = << [type |-> "select", unitIds |-> <<>>, team |-> c] >>] }
  \cup { [ClientMessage("joinRoom") EXCEPT !.roomCode = typed] :
            typed \in {TypedPool[1], CodePool[2], "zzzz"} }
  \cup { [text |-> "{"], [json |-> "null"], [json |-> "number"], [type |-> "ping"],
         [type |-> "joinRoom"], [type |-> "turnCommands"] }

\* wss.on('connection')
Connect(c) ==
  /\ conn[c].status = "none"
  /\ RelayUp
  /\ conn' = [conn EXCEPT ![c] = [status |-> "open", playerId |-> nextPlayerId]]
  /\ UNCHANGED <<engine, loop, commandQueue, stage, consumed, rooms, playerToRoom,
                 c2s, s2c, relayLog, budget>>

\* the peer sends a text once the relay has taken its last one
WireSend(c, data) ==
  /\ conn[c].status = "open"
  /\ c2s[c] = <<>>
  /\ budget.sends > 0
  /\ c2s' = [c2s EXCEPT ![c] = Append(@, data)]
  /\ budget' = [budget EXCEPT !.sends = @ - 1]
  /\ UNCHANGED <<engine, loop, commandQueue, stage, consumed, rooms, playerToRoom,
                 conn, s2c, relayLog>>

\* the peer closes its socket
SocketClose(c) ==
  /\ conn[c].status = "open"
  /\ c2s' = [c2s EXCEPT ![c] = Append(@, ClientMessage("close"))]
  /\ conn' = [conn EXCEPT ![c].status = "closed"]
  /\ UNCHANGED <<engine, loop, commandQueue, stage, consumed, rooms, playerToRoom,
                 s2c, relayLog, budget>>

InitRelay ==
  /\ engine = <<>>
  /\ stage = <<>>
  /\ loop = <<>>
  /\ commandQueue = <<>>
  /\ consumed = <<>>
  /\ rooms = <<>>
  /\ playerToRoom = <<>>
  /\ conn = [c \in Peers |-> [status |-> "none", playerId |-> -1]]
  /\ c2s = [c \in Peers |-> <<>>]
  /\ s2c = [c \in Peers |-> <<>>]
  /\ relayLog = [pending |-> <<>>, merged |-> <<>>, turnData |-> <<>>, tags |-> <<>>]
  /\ budget = [inputs |-> 0, closes |-> 0, sends |-> MaxSends]

NextRelay ==
  \E c \in Peers :
    \/ Connect(c)
    \/ \E data \in WirePool(c) : WireSend(c, data)
    \/ SocketClose(c)
    \/ RelayCreateRoom(c)
    \/ RelayJoinRoom(c)
    \/ RelayTurnCommands(c)
    \/ RelayLeave(c)
    \/ RelayClose(c)
    \/ RelayIgnore(c)
    \/ RelayThrow(c)

SpecRelay == InitRelay /\ [][NextRelay]_vars

-----------------------------------------------------------------------------------------------------------------------------------------------------
(* The pathfinder alone: findPath and processMoveCommand on tile grids with
   water and mountain tiles.  engine holds the grid and the two points, stage
   the unit and what findPath returned. *)

PathCols == 4
PathRows == 3
MaxWalls == 2

\* the tiles of a grid of the given size
TilesOf(cols, rows) == (0..(cols - 1)) \X (0..(rows - 1))

\* water (1) on the tiles of even parity and mountain (3) on the others
GridOf(walls, cols, rows) ==
  [ty \in 0..(rows - 1) |->
     [tx \in 0..(cols - 1) |->
        IF <<tx, ty>> \in walls THEN (IF (tx + ty) % 2 = 0 THEN 1 ELSE 3) ELSE 0]]

WallSets == {w \in SUBSET TilesOf(PathCols, PathRows) : Cardinality(w) <= MaxWalls}

\* two maps of the game's size: the bottom right tile fenced off, and a wall
\* down the middle that is open in the bottom row only
Fenced == {<<MAP_COLS - 2, MAP_ROWS - 1>>, <<MAP_COLS - 2, MAP_ROWS - 2>>,
           <<MAP_COLS - 1, MAP_ROWS - 2>>}
Walled == {MAP_COLS \div 2} \X (0..(MAP_ROWS - 2))

\* the places a unit starts from and is sent to on those maps
FarTiles == {<<0, 0>>, <<MAP_COLS \div 2 - 2, 3>>, <<MAP_COLS - 3, MAP_ROWS - 3>>,
             <<MAP_COLS - 1, MAP_ROWS - 1>>}

\* a unit on its way to an attack, standing at the centre of tile t
Walker(t) ==
  [x |-> TileCentre(t, TILE_SIZE).x, y |-> TileCentre(t, TILE_SIZE).y,
   state |-> "moving", attackTargetId |-> [k |-> "unit", n |-> 2],
   path |-> << TileCentre(t, TILE_SIZE) >>]

PathInput(walls, cols, rows, from, to) ==
  [tiles |-> GridOf(walls, cols, rows), cols |-> cols, rows |-> rows, start |-> from,
   targetX |-> TileCentre(to, TILE_SIZE).x, targetY |-> TileCentre(to, TILE_SIZE).y]

InitPath ==
  /\ \/ \E walls \in WallSets, from, to \in TilesOf(PathCols, PathRows) :
          /\ engine = PathInput(walls, PathCols, PathRows, from, to)
          /\ stage = [phase |-> "input", path |-> <<>>, iterations |-> 0,
                      unit |-> Walker(from)]
     \/ \E walls \in {Fenced, Walled}, from, to \in FarTiles :
          /\ engine = PathInput(walls, MAP_COLS, MAP_ROWS, from, to)
          /\ stage = [phase |-> "input", path |-> <<>>, iterations |-> 0,
                      unit |-> Walker(from)]
  /\ loop = <<>>
  /\ commandQueue = <<>>
  /\ consumed = <<>>
  /\ rooms = <<>>
  /\ playerToRoom = <<>>
  /\ conn = <<>>
  /\ c2s = <<>>
  /\ s2c = <<>>
  /\ relayLog = <<>>
  /\ budget = <<>>

\* findPath(mapTiles, unit.x, unit.y, targetX, targetY, cols, rows, tileSize)
\* on the grid of this state
PathOn(e, unit) ==
  findPathRun(e.tiles, unit.x, unit.y, e.targetX, e.targetY, e.cols, e.rows, TILE_SIZE)

\* a call of findPath from the unit's position
CallFindPath ==
  /\ stage.phase = "input"
  /\ LET run == PathOn(engine, stage.unit)
     IN stage' = [stage EXCEPT !.phase = "found", !.path = run.path,
                               !.iterations = run.iterations]
  /\ UNCHANGED <<engine, loop, commandQueue, consumed, rooms, playerToRoom,
                 conn, c2s, s2c, relayLog, budget>>

\* processMoveCommand for the unit, lines 106-121
MoveCommand ==
  /\ stage.phase = "found"
  /\ stage' = [stage EXCEPT !.phase = "moved",
                            !.unit = MovedUnit(@, PathOn(engine, @).path)]
  /\ UNCHANGED <<engine, loop, commandQueue, consumed, rooms, playerToRoom,
                 conn, c2s, s2c, relayLog, budget>>

NextPath == CallFindPath \/ MoveCommand

SpecPath == InitPath /\ [][NextPath]_vars

-----------------------------------------------------------------------------
(* SpecFactory: the factories of a multiplayer match that is some hundred     *)
(* ticks old.  The two grunts still stand at their forts; the factory sectors *)
(* have been taken by a team or are still neutral, and the factories' orders  *)
(* were given at different times, so their timers differ.  A building that    *)
(* was never owned has never run its timer.                                   *)

AgedTick        == 1500   \* the tick of the match when the model picks it up
MaxFactoryTicks == 3      \* tick() calls of the aged match

Owners == {NONE, RED, BLUE}

\* the whole ticks from two short of a ceiling of `type` to the ceiling
NearCeiling(type) ==
  UNION {LET c == ProdMaxTime(type, n) \div 1000 IN {c - 2, c - 1, c} : n \in 1..3}

TimerStarts(owner, type) == IF owner = NONE THEN {0} ELSE {0} \cup NearCeiling(type)

AgedState(o1, o2, t1, t2) ==
  LET fresh == createInitialState(
                 << Sector(0, 40 * 100, RED, "fort"),
                    Sector(1, 120 * 100, o1, "robotFactory"),
                    Sector(2, 200 * 100, o2, "vehicleFactory"),
                    Sector(3, 280 * 100, BLUE, "fort") >>,
                 << [type |-> "grunt", x |-> 40 * 100, team |-> RED],
                    [type |-> "grunt", x |-> 280 * 100, team |-> BLUE] >>)
  IN [fresh EXCEPT !.tick = AgedTick,
                   !.buildings[1].prodTimer = t1,
                   !.buildings[2].prodTimer = t2]

InitFactory ==
  /\ \E o1 \in Owners, o2 \in Owners :
       \E t1 \in TimerStarts(o1, "grunt"), t2 \in TimerStarts(o2, "jeep") :
         engine = (1 :> [state |-> AgedState(o1, o2, t1, t2), isMultiplayer |-> TRUE])
  /\ stage = (1 :> NoStage)
  /\ budget = [commands |-> MaxCommands, ticks |-> MaxFactoryTicks]
  /\ NoNetwork

\* a new order for the robot factory from each team
FactoryOrders(state) ==
  { << [type |-> "produce", buildingId |-> 1, unitType |-> "tough", team |-> t] >> :
      t \in {RED, BLUE} }

\* what updateProduction was given and what it returned in a tick() call
FactoryView(before, commands, st) ==
  [tick     |-> before.tick,
   commands |-> commands,
   threw    |-> Throws(before, commands),
   given    |-> st.fought,
   returned |-> st.produced]

\* engine.tick(commands)
FactoryTick(i, commands, s) ==
  LET e  == engine[i]
      st == TickStages(e.state, e.isMultiplayer, commands, s)
  IN /\ budget.ticks > 0
     /\ \/ commands = <<>> /\ budget' = [budget EXCEPT !.ticks = @ - 1]
        \/ /\ budget.commands > 0
           /\ commands \in FactoryOrders(e.state)
           /\ budget' = [budget EXCEPT !.commands = @ - 1, !.ticks = @ - 1]
     /\ engine' = [engine EXCEPT ![i].state = st.final]
     /\ stage' = [stage EXCEPT ![i] = FactoryView(e.state, commands, st)]
     /\ UNCHANGED <<loop, commandQueue, consumed, rooms, playerToRoom, conn,
                    c2s, s2c, relayLog>>

NextFactory ==
  \E i \in DOMAIN engine, s \in RandomStreams :
    \E commands \in {<<>>} \cup FactoryOrders(engine[i].state) :
      FactoryTick(i, commands, s)

SpecFactory == InitFactory /\ [][NextFactory]_vars

-----------------------------------------------------------------------------
(* SpecFlock: the Movement step on three RED grunts that were moved close to  *)
(* each other in a multiplayer match and now stand idle, a BLUE grunt far     *)
(* away at its fort.                                                          *)

MaxFlockTicks == 3      \* tick() calls on the group

\* where the second and the third grunt stand, relative to the first (px)
FlockOffsets1 == {<<dx, dy>> : dx \in {0, 12, 24}, dy \in {0, 7}}
FlockOffsets2 == {<<dx, dy>> : dx \in {-24, -10, 20}, dy \in {0, 15, 24}}

FlockState(d1, d2) ==
  LET fresh == createInitialState(
                 << Sector(0, 40 * 100, RED, "fort"), Sector(1, 280 * 100, BLUE, "fort") >>,
                 << [type |-> "grunt", x |-> 160 * 100, team |-> RED],
                    [type |-> "grunt", x |-> (160 + d1[1]) * 100, team |-> RED],
                    [type |-> "grunt", x |-> (160 + d2[1]) * 100, team |-> RED],
                    [type |-> "grunt", x |-> 280 * 100, team |-> BLUE] >>)
  IN [fresh EXCEPT !.tick = AgedTick,
                   !.units[1].y = @ + d1[2] * 100,
                   !.units[2].y = @ + d2[2] * 100]

InitFlock ==
  /\ \E d1 \in FlockOffsets1, d2 \in FlockOffsets2 :
       engine = (1 :> [state |-> FlockState(d1, d2), isMultiplayer |-> TRUE])
  /\ stage = (1 :> NoStage)
  /\ budget = [commands |-> 0, ticks |-> MaxFlockTicks]
  /\ NoNetwork

\* what updateMovement was given and what it returned in a tick() call
FlockView(before, st) ==
  [tick     |-> before.tick,
   threw    |-> FALSE,
   given    |-> st.commanded,
   returned |-> st.moved]

\* engine.tick([])
FlockTick(i, s) ==
  LET e  == engine[i]
      st == TickStages(e.state, e.isMultiplayer, <<>>, s)
  IN /\ budget.ticks > 0
     /\ budget' = [budget EXCEPT !.ticks = @ - 1]
     /\ engine' = [engine EXCEPT ![i].state = st.final]
     /\ stage' = [stage EXCEPT ![i] = FlockView(e.state, st)]
     /\ UNCHANGED <<loop, commandQueue, consumed, rooms, playerToRoom, conn,
                    c2s, s2c, relayLog>>

NextFlock == \E i \in DOMAIN engine, s \in RandomStreams : FlockTick(i, s)

SpecFlock == InitFlock /\ [][NextFlock]_vars

-----------------------------------------------------------------------------
(* Claims about the engine *)

\* the GameState without its events list
ButEvents(state) ==
  [tick |-> state.tick, isRunning |-> state.isRunning, winner |-> state.winner,
   winReason |-> state.winReason, units |-> state.units,
   buildings |-> state.buildings, sectors |-> state.sectors,
   projectiles |-> state.projectiles, particles |-> state.particles,
   explosions |-> state.explosions, nextUnitId |-> state.nextUnitId,
   nextProjectileId |-> state.nextProjectileId]

\* C5: two engines created from the same seed and fed the same commands tick
\* for tick hold, after every tick, the same GameState in every field but the
\* events list.
C5_Determinism ==
  ({1, 2} \subseteq DOMAIN engine) =>
     ButEvents(engine[1].state) = ButEvents(engine[2].state)

\* C6: in every reachable state the capture progress of every sector lies in
\* [0, CAPTURE_TIME].
C6_CaptureProgressBounded ==
  \A i \in DOMAIN engine :
    \A k \in 1..Len(engine[i].state.sectors) :
      /\ 0 <= engine[i].state.sectors[k].captureProgress
      /\ engine[i].state.sectors[k].captureProgress <= CAPTURE_TIME

\* a sector one capture step of two units below the ceiling
C6_Witness ==
  \E i \in DOMAIN engine :
    \E k \in 1..Len(engine[i].state.sectors) :
      /\ engine[i].state.sectors[k].captureProgress + 2 * 2 >= CAPTURE_TIME
      /\ engine[i].state.sectors[k].capturingTeam # NONE

BeforeCapture == {"cleared", "commanded", "moved", "fought", "produced"}
AfterCapture  == {"steered", "judged", "final"}

\* the capture step of the call recorded in g changed the owner of sector k
CaptureChangedOwner(g, k) ==
  g.owners["captured"].sectors[k].owner # g.owners["produced"].sectors[k].owner

\* the team that outnumbers the other at the flag of sector k, and its count
ContestingTeam(g, k) == CapturingTeam(g.nearFlag[k].red, g.nearFlag[k].blue)
ContestingCount(g, k) ==
  IF ContestingTeam(g, k) = RED THEN g.nearFlag[k].red ELSE g.nearFlag[k].blue

\* C7: a tick() call changes a sector's owner only in its capture step, and
\* only when the team outnumbering the other at the flag is not the owner, was
\* already the capturing team and its progress reaches CAPTURE_TIME in this
\* step; commands and the other systems leave every owner alone.
C7_OwnerChangesOnlyAtCeiling ==
  [][\A i \in DOMAIN engine :
       \A k \in 1..Len(engine[i].state.sectors) :
         LET g   == stage'[i]
             old == engine[i].state.sectors[k]
             new == engine'[i].state.sectors[k]
         IN (engine'[i] # engine[i]) =>
              /\ \A step \in BeforeCapture :
                   g.owners[step].sectors[k].owner = old.owner
              /\ \A step \in AfterCapture :
                   g.owners[step].sectors[k].owner = g.owners["captured"].sectors[k].owner
              /\ g.owners["final"].sectors[k].owner = new.owner
              /\ (new.owner # old.owner) =>
                   /\ ContestingTeam(g, k) \notin {NONE, old.owner}
                   /\ new.owner = ContestingTeam(g, k)
                   /\ old.capturingTeam = ContestingTeam(g, k)
                   /\ old.captureProgress + 2 * Min(ContestingCount(g, k), 4)
                        >= CAPTURE_TIME
    ]_vars

\* the last tick() call captured a sector
C7_Witness ==
  \E i \in DOMAIN engine :
    /\ stage[i].tick >= 0
    /\ \E k \in 1..Len(engine[i].state.sectors) : CaptureChangedOwner(stage[i], k)

BuildingsOfSector(state, k) ==
  {b \in DOMAIN state.buildings : state.buildings[b].sectorId = state.sectors[k].id}

\* C8: the capture step that captures a sector gives it to the capturing team,
\* resets its progress to 0, gives every building of the sector the new owner
\* and emits exactly one sectorCaptured event for it; and in every reachable
\* state each building is owned by the owner of its sector.
C8_CaptureIsAtomic ==
  \A i \in DOMAIN engine :
    LET state == engine[i].state
        g     == stage[i]
    IN /\ \A k \in 1..Len(state.sectors) :
            \A b \in BuildingsOfSector(state, k) :
              state.buildings[b].owner = state.sectors[k].owner
       /\ g.tick >= 0 =>
            \A k \in 1..Len(state.sectors) :
              LET after == g.owners["captured"]
              IN CaptureChangedOwner(g, k) =>
                   /\ after.sectors[k].owner = ContestingTeam(g, k)
                   /\ after.sectors[k].captureProgress = 0
                   /\ \A b \in BuildingsOfSector(state, k) :
                        after.buildings[b] = after.sectors[k].owner
                   /\ SelectSeq(g.captureEvents,
                                LAMBDA e : e.sectorId = state.sectors[k].id)
                        = << SectorCapturedEvent(state.sectors[k], after.sectors[k].owner) >>

\* a captured factory sector whose factory has changed hands with it
C8_Witness ==
  \E i \in DOMAIN engine :
    /\ stage[i].tick >= 0
    /\ \E k \in 1..Len(engine[i].state.sectors) :
         /\ CaptureChangedOwner(stage[i], k)
         /\ BuildingsOfSector(engine[i].state, k) # {}
         /\ \A b \in BuildingsOfSector(engine[i].state, k) :
              /\ stage[i].owners["produced"].buildings[b] = NONE
              /\ engine[i].state.buildings[b].owner = RED

\* C9: every state produced by the first 120 tick() calls (tick <= 120) is
\* running, has no winner and carries no gameOver event.
C9_NoWinBeforeTick120 ==
  \A i \in DOMAIN engine :
    engine[i].state.tick <= 120 =>
      /\ engine[i].state.isRunning
      /\ engine[i].state.winner = NONE
      /\ EventsOfType(engine[i].state.events, "gameOver") = <<>>

\* tick 120 reached with RED already eliminated, the game still running
C9_Witness ==
  \E i \in DOMAIN engine :
    /\ engine[i].state.tick = 120
    /\ Eliminated(engine[i].state, RED)
    /\ engine[i].state.isRunning

\* C10: the commands of a tick() call made when isRunning is false leave every
\* unit and every building unchanged.
C10_NoCommandAfterGameOver ==
  \A i \in DOMAIN stage :
    (stage[i].tick >= 0 /\ ~stage[i].wasRunning) => ~stage[i].commandEffect

-----------------------------------------------------------------------------
(* Claims about the relay and the lockstep loop (SpecNet) *)

\* C1: for every turn n the relay broadcasts no turnData while one player only
\* has submitted for turn n, and when the second submission arrives it
\* broadcasts one turnData, tagged n, whose commands are the two batches
\* concatenated: the tags of the broadcasts are 0, 1, 2, ... with none
\* repeated, a submission waits alone for a turn that has no broadcast yet,
\* and a broadcast merges two submissions of different players for its turn.
C1_RelayMergesPerTurn ==
  /\ \A n \in 1..Len(relayLog.tags) : relayLog.tags[n] = n - 1
  /\ Len(relayLog.pending) <= 1
  /\ \A i \in 1..Len(relayLog.pending) :
       relayLog.pending[i].turn = Len(relayLog.tags)
  /\ relayLog.merged # <<>> =>
       /\ Len(relayLog.merged) = 2
       /\ relayLog.merged[1].playerId # relayLog.merged[2].playerId
       /\ Len(relayLog.turnData) = 1
       /\ relayLog.turnData[1].turn = relayLog.tags[Len(relayLog.tags)]
       /\ \A i \in 1..2 : relayLog.merged[i].turn = relayLog.turnData[1].turn
       /\ relayLog.turnData[1].commands =
            relayLog.merged[1].commands \o relayLog.merged[2].commands

\* turn 1 broadcast from a non-empty batch of each of two registered players,
\* while one of them has already submitted for turn 2
C1_Witness ==
  /\ relayLog.tags = <<0, 1>>
  /\ Len(relayLog.merged) = 2
  /\ \A i \in 1..2 : /\ relayLog.merged[i].commands # <<>>
                      /\ relayLog.merged[i].registered = 2
  /\ Len(relayLog.turnData[1].commands) = 2

\* the windows client c has run: turn, first tick and commands of each
WindowsOf(c) == IF c \in DOMAIN consumed THEN consumed[c].windows ELSE <<>>

\* C2: for every turn n, the two clients of a room apply the same ordered
\* command list at the same tick, the first tick of window n, however the
\* deliveries interleave.
C2_SameCommandsSameTick ==
  \A n \in 1..Len(WindowsOf(1)) :
    /\ WindowsOf(1)[n].turn = n - 1
    /\ WindowsOf(1)[n].firstTick = TURN_INTERVAL * (n - 1)
    /\ n <= Len(WindowsOf(2)) => WindowsOf(2)[n] = WindowsOf(1)[n]

\* both clients have run window 1 with the commands of both players in it
C2_Witness ==
  /\ Len(WindowsOf(1)) = 2 /\ Len(WindowsOf(2)) = 2
  /\ Len(WindowsOf(1)[2].commands) = 2
  /\ WindowsOf(1)[2].commands[1].team # WindowsOf(1)[2].commands[2].team
  /\ WindowsOf(1)[2].firstTick = TURN_INTERVAL

\* C3: the ticks a client's engine has run are TURN_INTERVAL times the
\* turnData messages the client has processed, each window consumed the
\* turnData received for its turn, and a client that waits for a turn's
\* merged batch has run the windows before that turn only.
C3_TicksOnlyFromTurnData ==
  \A c \in DOMAIN engine :
    /\ engine[c].state.tick = TURN_INTERVAL * Len(consumed[c].windows)
    /\ Len(consumed[c].windows) <= Len(consumed[c].received)
    /\ Len(consumed[c].received) <= Len(relayLog.tags)
    /\ \A n \in 1..Len(consumed[c].windows) :
         /\ consumed[c].windows[n].turn = consumed[c].received[n].turn
         /\ consumed[c].windows[n].commands = consumed[c].received[n].commands
    /\ (loop[c].screen = "playing" /\ loop[c].waitingForTurnData) =>
         engine[c].state.tick = TURN_INTERVAL * loop[c].currentTurn

\* a client that ran window 0, submitted its commands for turn 1 and waits
C3_Witness ==
  \E c \in DOMAIN engine :
    /\ loop[c].screen = "playing"
    /\ loop[c].waitingForTurnData
    /\ loop[c].currentTurn = 1
    /\ Len(consumed[c].windows) = 1
    /\ engine[c].state.tick = TURN_INTERVAL

\* C4: the window a client runs for a turnData is TURN_INTERVAL consecutive
\* tick() calls, the first with the merged command list, each of the others
\* with the empty list.
C4_CommandsOnFirstTickOnly ==
  \A c \in DOMAIN engine :
    LET calls == consumed[c].calls
    IN calls # <<>> =>
         /\ Len(calls) = TURN_INTERVAL
         /\ calls[1].commands = consumed[c].received[Len(consumed[c].windows)].commands
         /\ \A i \in 2..Len(calls) :
              /\ calls[i].commands = <<>>
              /\ calls[i].tick = calls[1].tick + i - 1

\* a window whose merged list holds a command
C4_Witness ==
  \E c \in DOMAIN engine :
    /\ consumed[c].calls # <<>>
    /\ consumed[c].calls[1].commands # <<>>
    /\ Len(consumed[c].calls) = TURN_INTERVAL

-----------------------------------------------------------------------------
(* Claims about commands, deaths and damage (SpecEngine) *)

\* command cmd names unit u with the authority of u's owner and, for an
\* attack, with a target that is a unit or a building
Addresses(before, cmd, u) ==
  CASE cmd.type \in {"move", "attack"} ->
         /\ \E n \in 1..Len(cmd.unitIds) : cmd.unitIds[n] = u
         /\ before.units[u].owner = cmd.team
         /\ cmd.type = "attack" =>
              (HasUnit(before, cmd.targetId) \/ HasBuilding(before, cmd.targetId))
    [] cmd.type \in {"select", "boxSelect"} -> before.units[u].owner = cmd.team
    [] OTHER -> FALSE

\* command cmd orders production at building b with the authority of b's owner
Orders(before, cmd, b) ==
  cmd.type = "produce" /\ cmd.buildingId = b /\ before.buildings[b].owner = cmd.team

\* the last move or attack of the batch that addresses u, 0 if there is none
LastOrderTo(before, commands, u) ==
  LET js == {j \in 1..Len(commands) :
               commands[j].type \in {"move", "attack"} /\ Addresses(before, commands[j], u)}
  IN IF js = {} THEN 0 ELSE CHOOSE j \in js : \A k \in js : k <= j

LastProduceAt(before, commands, b) ==
  LET js == {j \in 1..Len(commands) : Orders(before, commands[j], b)}
  IN IF js = {} THEN 0 ELSE CHOOSE j \in js : \A k \in js : k <= j

\* what the commands of the call recorded in g did to the units and buildings
\* of `before`: whatever no command addresses with authority is as it was, no
\* entry appears or disappears, and the commands that do address a unit or a
\* building are applied, the last one deciding
DropsAndApplies(before, g) ==
  LET after == g.commanded
      cmds  == g.commands
  IN /\ DOMAIN after.units = DOMAIN before.units
     /\ DOMAIN after.buildings = DOMAIN before.buildings
     /\ \A u \in DOMAIN before.units :
          /\ (\A j \in 1..Len(cmds) : ~Addresses(before, cmds[j], u)) =>
               after.units[u] = before.units[u]
          /\ LET j == LastOrderTo(before, cmds, u)
             IN (~g.threw /\ j > 0) =>
                  /\ after.units[u].attackTargetId =
                       (IF cmds[j].type = "attack" THEN cmds[j].targetId ELSE NullId)
                  /\ (after.units[u].state = "moving") = (Len(after.units[u].path) > 0)
                  /\ after.units[u].state \in
                       {"moving", IF cmds[j].type = "attack" THEN "attacking" ELSE "idle"}
     /\ \A b \in DOMAIN before.buildings :
          /\ (\A j \in 1..Len(cmds) : ~Orders(before, cmds[j], b)) =>
               after.buildings[b] = before.buildings[b]
          /\ LET j == LastProduceAt(before, cmds, b)
             IN (~g.threw /\ j > 0) =>
                  /\ after.buildings[b].producing = cmds[j].unitType
                  /\ after.buildings[b].prodTimer = 0

\* C11: no tick() call fails on its commands, and in every call a command
\* that names a missing or foreign unit, a target that is neither a unit nor a
\* building, or a missing or foreign building leaves that unit or building as
\* it was, while the other units it names and the other commands of the batch
\* are applied.
C11_InvalidCommandsDropped ==
  [][\A i \in DOMAIN engine :
       /\ ~stage'[i].threw
       /\ DropsAndApplies(engine[i].state, stage'[i])
    ]_vars

\* the same without the demand that the call does not fail
C11_DroppedWhenNotThrown ==
  [][\A i \in DOMAIN engine : DropsAndApplies(engine[i].state, stage'[i])]_vars

\* C12: the state a tick() call returns holds no unit with hp <= 0: a unit
\* that a projectile brings to hp <= 0 is removed from units in that call.
C12_DeadUnitsRemovedSameTick ==
  \A i \in DOMAIN engine :
    \A u \in DOMAIN engine[i].state.units : engine[i].state.units[u].hp > 0

\* the unitDied events of a call that carry the id of unit u
DeathEvents(events, u) ==
  SelectSeq(events, LAMBDA e : e.type = "unitDied" /\ e.unitId = UnitId(u))

\* unit u is alive in `state`
Alive(state, u) == u \in DOMAIN state.units /\ state.units[u].hp > 0

\* C13: a tick() call emits one unitDied event for every unit that is alive
\* before the call and dead or gone after it, and none for any other unit; a
\* unit dies once, so exactly one unitDied event carries its id over the run,
\* and it is among the events of the tick in which the lethal projectile lands.
C13_OneDeathEventPerUnit ==
  [][\A i \in DOMAIN engine :
       \A u \in DOMAIN engine[i].state.units :
         Len(DeathEvents(engine'[i].state.events, u)) =
           (IF Alive(engine[i].state, u) /\ ~Alive(engine'[i].state, u) THEN 1 ELSE 0)
    ]_vars

\* the projectiles in flight before the combat step of the call recorded in g
\* that are gone after it: they landed in that step
Landed(g) ==
  {p \in DOMAIN g.combat.projectilesBefore : p \notin DOMAIN g.combat.projectilesAfter}

\* the projectiles fired in the combat step that landed in the same step
FiredAndLanded(g) ==
  g.combat.fired - Cardinality(DOMAIN g.combat.projectilesAfter
                                 \ DOMAIN g.combat.projectilesBefore)

UnitLoss(g, u) == g.combat.unitsBefore[u].hp - g.combat.unitsAfter[u].hp
BuildingLoss(g, b) == g.combat.buildingsBefore[b].hp - g.combat.buildingsAfter[b].hp

\* the point projectile p flies to: its live unit target, else the point stored
AimPoint(g, p) ==
  IF HasUnit([units |-> g.combat.unitsBefore], p.targetId)
     /\ g.combat.unitsBefore[p.targetId.n].hp > 0
  THEN [x |-> g.combat.unitsBefore[p.targetId.n].x, y |-> g.combat.unitsBefore[p.targetId.n].y]
  ELSE [x |-> p.targetX, y |-> p.targetY]

\* entity e may take the splash of p: an enemy within the splash radius of a
\* point less than the arrival distance away from the aim point
MaySplash(g, p, e) ==
  /\ p.isRocket /\ e.owner # p.team
  /\ distance(AimPoint(g, p).x, AimPoint(g, p).y, e.x, e.y) < SPLASH_RADIUS + 2 * p.speed

\* C14: the combat step of a call lowers the hp of no unit or building whose
\* hp is already <= 0; and when one projectile is all that lands in it, the
\* primary target loses exactly the projectile's damage, every other unit or
\* building that loses hp is an enemy within reach of the splash and loses
\* exactly the splash fraction of a rocket.
C14_CombatConservation ==
  \A i \in DOMAIN stage :
    LET g == stage[i]
    IN g.tick >= 0 =>
         /\ \A u \in DOMAIN g.combat.unitsBefore :
              g.combat.unitsBefore[u].hp <= 0 => UnitLoss(g, u) = 0
         /\ \A b \in DOMAIN g.combat.buildingsBefore :
              g.combat.buildingsBefore[b].hp <= 0 => BuildingLoss(g, b) = 0
         /\ (Cardinality(Landed(g)) = 1 /\ FiredAndLanded(g) = 0) =>
              \A n \in Landed(g) :
                LET p == g.combat.projectilesBefore[n]
                IN /\ \A u \in DOMAIN g.combat.unitsBefore :
                        IF p.targetId = UnitId(u)
                        THEN g.combat.unitsBefore[u].hp > 0 => UnitLoss(g, u) = p.damage
                        ELSE \/ UnitLoss(g, u) = 0
                             \/ /\ UnitLoss(g, u) = SplashDamage(p)
                                /\ MaySplash(g, p, g.combat.unitsBefore[u])
                   /\ \A b \in DOMAIN g.combat.buildingsBefore :
                        IF p.targetId = BldId(b)
                        THEN g.combat.buildingsBefore[b].hp > 0 => BuildingLoss(g, b) = p.damage
                        ELSE \/ BuildingLoss(g, b) = 0
                             \/ /\ BuildingLoss(g, b) = SplashDamage(p)
                                /\ MaySplash(g, p, g.combat.buildingsBefore[b])

-----------------------------------------------------------------------------
(* Claims about the relay's rooms (SpecRelay) *)

OfType(chan, type) == SelectSeq(chan, LAMBDA m : m.type = type)

\* the relay sent k more messages of the type to connection c in this step
Gained(c, type, k) == Len(OfType(s2c'[c], type)) = Len(OfType(s2c[c], type)) + k

\* C15: a step of the relay that sends gameStart to a connection is the join
\* of a second, distinct connection to a room not started before: after it the
\* room holds two connections, the creator with team 1 and the joiner with
\* team 2, and each of them whose socket is open got one gameStart, with the
\* room's seed and the turn interval, as its last message.
C15_GameStartOnSecondJoin ==
  [][\A c \in DOMAIN s2c :
       ~Gained(c, "gameStart", 0) =>
         \E code \in DOMAIN rooms \cap DOMAIN rooms' :
           LET room == rooms'[code]
           IN /\ c \in Sockets(room)
              /\ ~rooms[code].started /\ room.started
              /\ Len(rooms[code].players) = 1 /\ Len(room.players) = 2
              /\ room.players[1] = rooms[code].players[1]
              /\ room.players[1].ws # room.players[2].ws
              /\ room.teamAssignment[room.players[1].playerId] = RED
              /\ room.teamAssignment[room.players[2].playerId] = BLUE
              /\ \A k \in Sockets(room) :
                   conn[k].status = "open" =>
                     /\ Gained(k, "gameStart", 1)
                     /\ s2c'[k][Len(s2c'[k])] =
                          [ServerMessage("gameStart") EXCEPT
                             !.seed = room.seed, !.turnInterval = TURN_INTERVAL]
    ]_vars

\* the relay handles the text at the head of the queue of connection c
Handles(c) == c2s[c] # <<>> /\ c2s' = [c2s EXCEPT ![c] = Tail(@)]

\* the room a joinRoom asks for is missing, holds two connections or is started
Refused(msg) ==
  LET code == toUpperCase(msg.roomCode)
  IN \/ code \notin DOMAIN rooms
     \/ Len(rooms[code].players) >= 2
     \/ rooms[code].started

HasError(c, message) ==
  \E i \in 1..Len(s2c[c]) : s2c[c][i].type = "error" /\ s2c[c][i].message = message

C16_WitnessFull ==
  \E c \in DOMAIN s2c :
    /\ HasError(c, "Room is full")
    /\ \E code \in DOMAIN rooms : Len(rooms[code].players) = 2

\* the relay handles a leave message or the close of the socket of c
Departs(c) == Handles(c) /\ TypeOf(Head(c2s[c])) \in {"leave", "close"}

\* connections c and k are players of one room
Share(c, k) == \E code \in DOMAIN rooms : {c, k} \subseteq Sockets(rooms[code])

\* the relay has not seen the socket of k close
Live(conns, chan, k) ==
  \/ conns[k].status = "open"
  \/ \E i \in 1..Len(chan[k]) : TypeOf(chan[k][i]) = "close"

\* C17: when the relay handles the leave or the close of a connection, every
\* other open connection that is a player of a room with it is sent exactly
\* one opponentDisconnected and every other connection none (so a close
\* after a leave sends nothing more); and after every step each room of the
\* registry has a player whose socket the relay has not seen close.
C17_DepartureNotifiesAndCleans ==
  [][/\ \A c \in DOMAIN c2s :
          Departs(c) =>
            \A k \in DOMAIN s2c \ {c} :
              conn[k].status = "open" =>
                Gained(k, "opponentDisconnected", IF Share(c, k) THEN 1 ELSE 0)
     /\ \A code \in DOMAIN rooms' :
          \E k \in Sockets(rooms'[code]) : Live(conn', c2s', k)
    ]_vars

\* a text that is no message of network/protocol.ts: not JSON, JSON that is
\* no object with a type the relay knows, or a message without the fields of
\* its type
Malformed(data) ==
  \/ ~Parses(data)
  \/ IsNull(data)
  \/ TypeOf(data) \notin Handled
  \/ LacksRoomCode(data)
  \/ TypeOf(data) = "turnCommands" /\ "commands" \notin DOMAIN data

\* C18: a step that takes a malformed text off the queue of a connection
\* takes that one text only: no reply is sent to anyone, no room and no
\* connection changes, and the texts queued by the other connections stay
\* to be handled.
C18_MalformedIgnored ==
  [][\A c \in DOMAIN c2s :
       ( /\ c2s[c] # <<>>
         /\ Malformed(Head(c2s[c]))
         /\ Len(c2s'[c]) < Len(c2s[c]) ) =>
           /\ Handles(c)
           /\ s2c' = s2c
           /\ rooms' = rooms
           /\ playerToRoom' = playerToRoom
           /\ conn' = conn
    ]_vars

-----------------------------------------------------------------------------
(* Claims about the command queue and the AI (SpecLoops) *)

\* the commands of client c that were enqueued and not yet handed on
Pending(queue, l, c) == l[c].localCommandsThisTurn \o queue[c]

\* the commands this step hands on for client c: the batch of a turnCommands
\* message it sends, or the argument of the tick() call of its single-player
\* frame
HandedOn(c) ==
  IF /\ Len(c2s'[c]) = Len(c2s[c]) + 1
     /\ c2s'[c][Len(c2s'[c])].type = "turnCommands"
  THEN c2s'[c][Len(c2s'[c])].commands
  ELSE IF /\ c \in DOMAIN engine /\ c \in DOMAIN engine'
          /\ ~engine[c].isMultiplayer
          /\ engine'[c].state.tick # engine[c].state.tick
       THEN consumed'[c].calls[1].commands
       ELSE <<>>

C19_WitnessSolo ==
  \E c \in DOMAIN engine :
    /\ ~engine[c].isMultiplayer
    /\ consumed[c].calls # <<>>
    /\ consumed[c].calls[1].commands # <<>>

\* C20: a tick() call whose AI step (lines 44-49: the AI's commands and the
\* second movement step) changed the state is a call of a single-player
\* engine on a tick that is a multiple of 30; no call of a networked engine
\* and no call on another tick has such a step.
C20_AIOnlySoloEvery30 ==
  \A i \in DOMAIN engine :
    (stage[i].tick >= 0 /\ stage[i].aiEffect) =>
      /\ ~engine[i].isMultiplayer
      /\ stage[i].tick % 30 = 0

\* the AI step of the call on tick 30 of a single-player game changed the
\* state
C20_Witness ==
  \E i \in DOMAIN engine :
    /\ ~engine[i].isMultiplayer
    /\ stage[i].tick = 30
    /\ stage[i].aiEffect

\* a networked engine has made its calls on ticks 0, 30 and 60
C20_WitnessNetworked ==
  \E i \in DOMAIN engine :
    /\ engine[i].isMultiplayer
    /\ stage[i].tick = 60
    /\ ~stage[i].aiEffect

-----------------------------------------------------------------------------
(* Claims about the order of a tick and about paths (SpecEngine) *)

\* the state a tick() call returns when its phases run in the order of the
\* claim, each on the state the one before returned
InOrder(state, isMultiplayer, commands, s) ==
  LET cleared   == [state EXCEPT !.events = <<>>]
      commanded == processCommands(cleared, commands)
      moved     == updateMovement(commanded, s, DrawBaseMove1)
      fought    == updateCombat(moved, s)
      produced  == updateProduction(fought)
      captured  == updateCapture(produced)
      AITurn(st) == IF RunsAI(isMultiplayer, st)
                    THEN updateMovement(processCommands(st, updateAI(st, s)), s, DrawBaseMove2)
                    ELSE st
      WinCheck(st) == IF st.tick >= 120 THEN checkWinCondition(st) ELSE st
      Count(st) == [st EXCEPT !.tick = @ + 1]
  IN Count(WinCheck(AITurn(captured)))

\* C21: the state a tick() call leaves is the state obtained by clearing the
\* events, applying the commands, then Movement, Combat, Production and
\* Capture, then on an AI tick the AI's commands and one more Movement, then
\* the win check from tick 120 on, then tick + 1, each phase applied to the
\* whole state the phase before returned.
C21_PhasesInOrder ==
  [][\A i \in DOMAIN engine :
       ~stage'[i].threw =>
         \E s \in RandomStreams :
           engine'[i].state =
             InOrder(engine[i].state, engine[i].isMultiplayer, stage'[i].commands, s)
    ]_vars

\* the call on tick 30 of a single-player game: Combat changed a unit, the AI
\* step changed the state, the tick was counted
C21_Witness ==
  \E i \in DOMAIN engine :
    /\ stage[i].tick = 30
    /\ stage[i].aiEffect
    /\ stage[i].combat.unitsBefore # stage[i].combat.unitsAfter
    /\ engine[i].state.tick = 31

-----------------------------------------------------------------------------------------------------------------------------------------------------
(* Claims about findPath (SpecPath) *)

\* a / b < c / d for fractions <<numerator, denominator>> with b, d > 0
Below(a, b) == a[1] * b[2] < b[1] * a[2]

\* a coordinate in half tiles: the centre of tile k is at 2 * k + 1
HalfTiles(v) == v \div (TILE_SIZE \div 2)

\* the parameters t of the points p + t * d that lie strictly between l and h:
\* the open interval (EntersAt, LeavesAt), or no point at all (Misses)
EntersAt(p, d, l, h) ==
  IF d > 0 THEN <<l - p, d>> ELSE IF d < 0 THEN <<p - h, -d>> ELSE <<-1, 1>>

LeavesAt(p, d, l, h) ==
  IF d > 0 THEN <<h - p, d>> ELSE IF d < 0 THEN <<p - l, -d>> ELSE <<2, 1>>

Misses(p, d, l, h) == d = 0 /\ ~(l < p /\ p < h)

\* the straight segment between the tile centres a and b has a point in the
\* interior of tile t
CrossesTile(a, b, t) ==
  LET ax == HalfTiles(a.x)
      ay == HalfTiles(a.y)
      dx == HalfTiles(b.x) - ax
      dy == HalfTiles(b.y) - ay
      l == 2 * t[1]
      u == 2 * t[2]
  IN /\ ~Misses(ax, dx, l, l + 2)
     /\ ~Misses(ay, dy, u, u + 2)
     /\ \A lo \in {EntersAt(ax, dx, l, l + 2), EntersAt(ay, dy, u, u + 2), <<0, 1>>} :
          \A hi \in {LeavesAt(ax, dx, l, l + 2), LeavesAt(ay, dy, u, u + 2), <<1, 1>>} :
            Below(lo, hi)

Blocked(e) == {t \in TilesOf(e.cols, e.rows) : ~isPassable(e.tiles, t[1], t[2], e.cols, e.rows)}

\* the tile of the target point
TargetTile(e) == <<e.targetX \div TILE_SIZE, e.targetY \div TILE_SIZE>>

OnPassableCentre(e, p) ==
  \E t \in TilesOf(e.cols, e.rows) \ Blocked(e) : p = TileCentre(t, TILE_SIZE)

SegmentsClear(e, path) ==
  \A i \in 1..(Len(path) - 1) :
    \A t \in Blocked(e) : ~CrossesTile(path[i], path[i + 1], t)

\* C22: every waypoint findPath returns is the centre of a passable tile, the
\* straight segment between two consecutive waypoints crosses no impassable
\* tile, and the path is empty when start and destination are in one tile.
C22_PathAvoidsImpassable ==
  stage.phase = "found" =>
    /\ \A i \in 1..Len(stage.path) : OnPassableCentre(engine, stage.path[i])
    /\ SegmentsClear(engine, stage.path)
    /\ (engine.start = TargetTile(engine) => stage.path = <<>>)

\* the grid points where four tiles meet
Corners(e) == (1..(e.cols - 1)) \X (1..(e.rows - 1))

\* the segment between the tile centres a and b is oblique and runs through
\* the corner k, strictly between its end points
ThroughCorner(a, b, k) ==
  LET ax == HalfTiles(a.x)
      ay == HalfTiles(a.y)
      bx == HalfTiles(b.x)
      by == HalfTiles(b.y)
  IN /\ ax # bx /\ ay # by
     /\ (2 * k[1] - ax) * (by - ay) = (2 * k[2] - ay) * (bx - ax)
     /\ Min(ax, bx) < 2 * k[1] /\ 2 * k[1] < Max(ax, bx)

\* the two tiles at corner k that a segment through k passes between without
\* entering them: the cardinal neighbours of the two tiles it does enter
Flanks(a, b, k) ==
  IF (b.x - a.x > 0) = (b.y - a.y > 0)
  THEN {<<k[1], k[2] - 1>>, <<k[1] - 1, k[2]>>}
  ELSE {<<k[1] - 1, k[2] - 1>>, <<k[1], k[2]>>}

\* the corners the path runs through: <<i, k>> when the segment from waypoint
\* i to waypoint i + 1 runs through corner k
Passages(e, path) ==
  {p \in (1..(Len(path) - 1)) \X Corners(e) : ThroughCorner(path[p[1]], path[p[1] + 1], p[2])}

\* C23: the search rejects a diagonal step when either flanking cardinal tile
\* is impassable and the line-of-sight pass brings no such passage back, so a
\* returned path never passes diagonally through a corner where a flanking
\* cardinal tile is impassable.
C23_NoRejectedPassage ==
  stage.phase = "found" =>
    \A p \in Passages(engine, stage.path) :
      Flanks(stage.path[p[1]], stage.path[p[1] + 1], p[2]) \cap Blocked(engine) = {}

\* The part of C23 that holds: a returned path never passes diagonally through
\* a corner whose two flanking cardinal tiles are both impassable.
C23_NoCornerCutting ==
  stage.phase = "found" =>
    \A p \in Passages(engine, stage.path) :
      ~(Flanks(stage.path[p[1]], stage.path[p[1] + 1], p[2]) \subseteq Blocked(engine))

\* the corner k is a pinch from tile a to tile b: a and b meet at k only, are
\* passable, and the two other tiles at k are impassable
Pinch(e, a, b, k) ==
  /\ {a, b} \in {{<<k[1] - 1, k[2] - 1>>, <<k[1], k[2]>>},
                 {<<k[1], k[2] - 1>>, <<k[1] - 1, k[2]>>}}
  /\ a # b
  /\ {a, b} \cap Blocked(e) = {}
  /\ {<<k[1] - 1, k[2] - 1>>, <<k[1], k[2]>>, <<k[1], k[2] - 1>>, <<k[1] - 1, k[2]>>}
       \ {a, b} \subseteq Blocked(e)

\* a path found from one side of a pinch to the other
C23_Witness ==
  /\ stage.phase = "found"
  /\ \E k \in Corners(engine) : Pinch(engine, engine.start, TargetTile(engine), k)
  /\ Len(stage.path) >= 2
  /\ Passages(engine, stage.path) # {}

\* the tiles one step of the search leads to from tile t: the passable
\* neighbours, a diagonal one only past two passable cardinal tiles
StepsFrom(e, t) ==
  {n \in {<<t[1] + dx, t[2] + dy>> : dx \in -1..1, dy \in -1..1} \ {t} :
     /\ isPassable(e.tiles, n[1], n[2], e.cols, e.rows)
     /\ isDiagonalPassable(e.tiles, t[1], t[2], n[1], n[2], e.cols, e.rows)}

\* the tiles that steps lead to from the tiles seen, frontier being the ones
\* seen last
RECURSIVE Reach(_, _, _)
Reach(e, seen, frontier) ==
  IF frontier = {} THEN seen
  ELSE LET next == UNION {StepsFrom(e, t) : t \in frontier} \ seen
       IN Reach(e, seen \cup next, next)

\* the tile findPath searches to: the tile of the target, or the passable
\* tile the spiral search finds when that one is impassable
Destination(e) ==
  IF isPassable(e.tiles, TargetTile(e)[1], TargetTile(e)[2], e.cols, e.rows)
  THEN TargetTile(e)
  ELSE SpiralSearch(e.tiles, TargetTile(e)[1], TargetTile(e)[2], e.cols, e.rows, 1)

Reachable(e) == Destination(e) \in Reach(e, {e.start}, {e.start})

\* C24: findPath runs its loop at most maxIterations times; it returns the
\* empty path when no steps lead to the destination, and any path it returns
\* ends at the destination, so a search that ran out of turns returns the
\* empty path; the unit given the Move command has the path findPath returned
\* and is idle when that path is empty.
C24_BoundedSearchDegrades ==
  stage.phase \in {"found", "moved"} =>
    /\ stage.iterations <= maxIterations
    /\ (~Reachable(engine) => stage.path = <<>>)
    /\ (stage.path # <<>> =>
          stage.path[Len(stage.path)] = TileCentre(Destination(engine), TILE_SIZE))
    /\ (stage.phase = "moved" =>
          /\ stage.unit.path = stage.path
          /\ (stage.path = <<>> => stage.unit.state = "idle"))

\* a destination that steps lead to, a search that used up its turns, and the
\* unit idle after the Move command
C24_Witness ==
  /\ stage.phase = "moved"
  /\ Reachable(engine)
  /\ engine.start # Destination(engine)
  /\ stage.iterations = maxIterations
  /\ stage.path = <<>>
  /\ stage.unit.state = "idle"

\* a destination no steps lead to and an open set that ran empty
C24_WitnessExhausted ==
  /\ stage.phase = "moved"
  /\ ~Reachable(engine)
  /\ stage.iterations < maxIterations
  /\ stage.unit.path = <<>>
  /\ stage.unit.state = "idle"

\* a destination no steps lead to and a search that used up its turns
C24_WitnessFenced ==
  /\ stage.phase = "moved"
  /\ ~Reachable(engine)
  /\ stage.iterations = maxIterations
  /\ stage.unit.state = "idle"

-----------------------------------------------------------------------------
(* Claims about the isolation of rooms (SpecRelay) *)

\* connection k is a player of room code
PlaysIn(k, code) == code \in DOMAIN rooms /\ k \in Sockets(rooms[code])

\* connection k is a player of some room and not of room code
OnlyElsewhere(k, code) ==
  /\ ~PlaysIn(k, code)
  /\ \E other \in DOMAIN rooms : PlaysIn(k, other)

\* the step leaves every room but code as it is and sends nothing to a
\* connection that plays only in other rooms
Isolated(c, code) ==
  /\ \A other \in DOMAIN rooms \ {code} :
       other \in DOMAIN rooms' /\ rooms'[other] = rooms[other]
  /\ \A k \in DOMAIN s2c \ {c} : OnlyElsewhere(k, code) => s2c'[k] = s2c[k]

\* C25: when the relay handles a message or the close of a connection that
\* belongs to a room, every other room keeps its connection map, team
\* assignment, started flag, turn counter and accumulator, and no message is
\* sent to a connection that is only in another room.
C25_RoomsIsolated ==
  [][\A c \in DOMAIN c2s :
       Handles(c) /\ c \in DOMAIN playerToRoom => Isolated(c, playerToRoom[c])
    ]_vars

-----------------------------------------------------------------------------
(* Claims about targets, Move commands and unit states (SpecEngine) *)

\* the units and buildings as updateCombat finds them in engine i
Fighters(i) == stage[i].combat.unitsBefore
Forts(i)    == stage[i].combat.buildingsBefore

\* the live enemy units and buildings within the weapon range of unit u
EnemyUnitsInRange(i, u) ==
  {n \in DOMAIN Fighters(i) :
     /\ Fighters(i)[n].owner # u.owner /\ Fighters(i)[n].hp > 0
     /\ distance(u.x, u.y, Fighters(i)[n].x, Fighters(i)[n].y) <= UNIT_DEFS[u.type].range}

EnemyBuildingsInRange(i, u) ==
  {n \in DOMAIN Forts(i) :
     /\ Forts(i)[n].owner # u.owner /\ Forts(i)[n].hp > 0
     /\ distance(u.x, u.y, Forts(i)[n].x, Forts(i)[n].y) <= UNIT_DEFS[u.type].range}

\* the explicit attack target of u is alive, enemy-owned and within range
ExplicitInRange(i, u) ==
  \/ u.attackTargetId.k = "unit" /\ u.attackTargetId.n \in EnemyUnitsInRange(i, u)
  \/ u.attackTargetId.k = "bld" /\ u.attackTargetId.n \in EnemyBuildingsInRange(i, u)

\* n is a nearest one of the units (buildings) ns to u
NearestOf(u, things, ns, n) ==
  /\ n \in ns
  /\ \A m \in ns : distance(u.x, u.y, things[n].x, things[n].y)
                     <= distance(u.x, u.y, things[m].x, things[m].y)

\* an enemy unit is closer to u than the weapon range
EnemyUnitInside(i, u) ==
  \E n \in EnemyUnitsInRange(i, u) :
    distance(u.x, u.y, Fighters(i)[n].x, Fighters(i)[n].y) < UNIT_DEFS[u.type].range

\* the priority order lets unit u fire at target id (an enemy unit at exactly
\* the weapon range may count as in range or not)
RightTarget(i, u, id) ==
  IF ExplicitInRange(i, u) THEN id = u.attackTargetId
  ELSE \/ id.k = "unit" /\ NearestOf(u, Fighters(i), EnemyUnitsInRange(i, u), id.n)
       \/ /\ id.k = "bld" /\ NearestOf(u, Forts(i), EnemyBuildingsInRange(i, u), id.n)
          /\ ~EnemyUnitInside(i, u)

Shots(i) == EventsOfType(engine[i].state.events, "unitFired")

\* C26: a unit that fires aims at its explicit attack target when that target
\* is alive, enemy-owned and within range, whatever other enemies are in
\* range; otherwise at the nearest enemy unit in range, and at the nearest
\* enemy building in range only when no enemy unit is in range.
C26_TargetPriority ==
  \A i \in DOMAIN engine :
    stage[i].tick >= 0 /\ ~stage[i].threw =>
      \A k \in 1..Len(Shots(i)) :
        RightTarget(i, Fighters(i)[Shots(i)[k].unitId.n], Shots(i)[k].targetId)

\* command j of the call is a Move and no later command of the call is a Move
\* or an Attack
LastOrder(commands, j) ==
  /\ commands[j].type = "move"
  /\ \A k \in (j + 1)..Len(commands) : commands[k].type \notin {"move", "attack"}

\* unit id of engine i, as the commands of the call left it, is what the Move
\* command cmd makes of the unit before the call
Redirected(i, cmd, id) ==
  LET was == engine[i].state.units[id]
      now == stage'[i].commanded.units[id]
      path == PathTo(was, cmd.targetX, cmd.targetY)
  IN /\ now.attackTargetId = NullId
     /\ now.path = path
     /\ now.state = IF path # <<>> THEN "moving" ELSE "idle"

\* engine i makes a tick() call in this step and the call does not throw
Ticks(i) ==
  /\ stage'[i] # stage[i]
  /\ stage'[i].tick = engine[i].state.tick
  /\ ~stage'[i].threw

\* C27: after a Move command is applied to a unit of the command's team the
\* unit has no attack target, its path is the path findPath gives from its
\* position to the target, and its state is moving when that path is not
\* empty and idle otherwise.
C27_MoveCommandEffect ==
  [][\A i \in DOMAIN engine :
       Ticks(i) =>
         \A j \in 1..Len(stage'[i].commands) :
           LastOrder(stage'[i].commands, j) =>
             \A k \in 1..Len(stage'[i].commands[j].unitIds) :
               Authorized(engine[i].state.units, stage'[i].commands[j].unitIds[k],
                          stage'[i].commands[j].team)
                 => Redirected(i, stage'[i].commands[j], stage'[i].commands[j].unitIds[k])
    ]_vars

\* a call that gives a unit an attack target and then a Move command: the unit
\* is moving and has no target
C27_Witness ==
  \E i \in DOMAIN engine :
    /\ stage[i].tick >= 0
    /\ ~stage[i].threw
    /\ \E j \in 2..Len(stage[i].commands) :
         /\ LastOrder(stage[i].commands, j)
         /\ stage[i].commands[j - 1].type = "attack"
         /\ \E id \in DOMAIN stage[i].commanded.units :
              /\ \E k \in 1..Len(stage[i].commands[j].unitIds) :
                   stage[i].commands[j].unitIds[k] = id
              /\ \E k \in 1..Len(stage[i].commands[j - 1].unitIds) :
                   stage[i].commands[j - 1].unitIds[k] = id
              /\ stage[i].commands[j - 1].targetId.n \in DOMAIN stage[i].commanded.units
              /\ stage[i].commanded.units[id].owner = stage[i].commands[j].team
              /\ stage[i].commanded.units[id].state = "moving"
              /\ stage[i].commanded.units[id].attackTargetId = NullId

\* the units of engine i as updateMovement finds them, and as it leaves them
Standing(i) == stage[i].commanded.units
Marched(i)  == stage[i].combat.unitsBefore

\* where the attack target of unit u stands when updateMovement runs
TargetOf(i, u) ==
  IF u.attackTargetId.k = "unit"
  THEN Standing(i)[u.attackTargetId.n]
  ELSE stage[i].commanded.buildings[u.attackTargetId.n]

\* the live units that updateMovement finds with an attack target that exists
\* and with no path, and that are there after it
Hunters(i) ==
  {id \in DOMAIN Standing(i) \cap DOMAIN Marched(i) :
     /\ Standing(i)[id].hp > 0
     /\ Standing(i)[id].path = <<>>
     /\ \/ /\ Standing(i)[id].attackTargetId.k = "unit"
           /\ Standing(i)[id].attackTargetId.n \in DOMAIN Standing(i)
        \/ /\ Standing(i)[id].attackTargetId.k = "bld"
           /\ Standing(i)[id].attackTargetId.n \in DOMAIN stage[i].commanded.buildings}

TargetInRange(i, u) ==
  distance(u.x, u.y, TargetOf(i, u).x, TargetOf(i, u).y) <= UNIT_DEFS[u.type].range

\* C28: Movement leaves a unit that has an attack target and no path in state
\* attacking when the target is within weapon range and in state moving when
\* it is out of range, so a unit is attacking only while its target is in
\* range.
C28_AttackingOnlyInRange ==
  \A i \in DOMAIN engine :
    stage[i].tick >= 0 /\ ~stage[i].threw =>
      \A id \in Hunters(i) :
        Marched(i)[id].state =
          IF TargetInRange(i, Standing(i)[id]) THEN "attacking" ELSE "moving"

-----------------------------------------------------------------------------
(* Claims about the Capture and Production steps (SpecEngine) *)

\* the team with strictly more live units near the flag of sector k when
\* updateCapture runs in engine i; NONE when the counts are equal
Majority(i, k) ==
  IF stage[i].nearFlag[k].red > stage[i].nearFlag[k].blue THEN RED
  ELSE IF stage[i].nearFlag[k].blue > stage[i].nearFlag[k].red THEN BLUE
  ELSE NONE

\* sector k of engine i before and after updateCapture
Contested(i, k) == stage[i].owners["produced"].sectors[k]
Settled(i, k)   == stage[i].owners["captured"].sectors[k]

\* C29: in every Capture step, when the team with the strict majority near a
\* flag is not the sector's recorded contesting team, the sector's progress
\* is reset to zero and that team is recorded as the contester.
C29_ContesterChangeResets ==
  \A i \in DOMAIN engine :
    stage[i].tick >= 0 /\ ~stage[i].threw =>
      \A k \in DOMAIN stage[i].nearFlag :
        Majority(i, k) # NONE /\ Majority(i, k) # Contested(i, k).capturingTeam =>
          /\ Settled(i, k).captureProgress = 0
          /\ Settled(i, k).capturingTeam = Majority(i, k)

-----------------------------------------------------------------------------
(* Claims about the Production step (SpecFactory) *)

\* the Production step of a call of engine i was run
Produces(i) == stage[i].tick >= 0 /\ ~stage[i].threw

\* building b before and after the Production step of engine i
Ordered(i, b) == stage[i].given.buildings[b]
Served(i, b)  == stage[i].returned.buildings[b]

\* b has a production order and a non-neutral owner
Working(i, b) == Ordered(i, b).producing # "" /\ Ordered(i, b).owner # NONE

\* the incremented timer has reached the ceiling the step stored (thousandths)
AtCeiling(i, b) == (Ordered(i, b).prodTimer + 1) * 1000 >= Served(i, b).prodMaxTime

\* the buildings that complete a unit in the step, in the order of the loop
Completing(i) ==
  SelectSeq(Keys(stage[i].given.buildings),
            LAMBDA b : Working(i, b) /\ AtCeiling(i, b))

\* the number of the unit the j-th completing building adds
NewUnitNumber(i, j) == stage[i].given.nextUnitId + j - 1

\* the events the Production step appended
ProductionEvents(i) ==
  SubSeq(stage[i].returned.events, Len(stage[i].given.events) + 1,
         Len(stage[i].returned.events))

\* C30: in the Production step the timer of every building with an order and
\* a non-neutral owner goes up by 1; a building whose timer reaches the
\* ceiling adds exactly one unit of the ordered type and of its team under the
\* id unit_<nextUnitId>, nextUnitId goes up by 1, the timer is back at 0 and
\* exactly one unitProduced event names the unit and the building; a neutral
\* building adds no unit and its timer stands still.
C30_ProductionStep ==
  \A i \in DOMAIN engine :
    Produces(i) =>
      LET given    == stage[i].given
          returned == stage[i].returned
          done     == Completing(i)
      IN /\ \A b \in DOMAIN given.buildings :
              /\ Working(i, b) /\ ~AtCeiling(i, b) =>
                   Served(i, b).prodTimer = Ordered(i, b).prodTimer + 1
              /\ Working(i, b) /\ AtCeiling(i, b) => Served(i, b).prodTimer = 0
              /\ Ordered(i, b).owner = NONE =>
                   Served(i, b).prodTimer = Ordered(i, b).prodTimer
         /\ returned.nextUnitId = given.nextUnitId + Len(done)
         /\ DOMAIN returned.units =
              DOMAIN given.units \cup {NewUnitNumber(i, j) : j \in 1..Len(done)}
         /\ \A n \in DOMAIN given.units : returned.units[n] = given.units[n]
         /\ \A j \in 1..Len(done) :
              LET n == NewUnitNumber(i, j)
              IN /\ n \notin DOMAIN given.units
                 /\ returned.units[n].id = n
                 /\ returned.units[n].type = Ordered(i, done[j]).producing
                 /\ returned.units[n].owner = Ordered(i, done[j]).owner
         /\ Len(ProductionEvents(i)) = Len(done)
         /\ \A j \in 1..Len(done) :
              /\ ProductionEvents(i)[j].type = "unitProduced"
              /\ ProductionEvents(i)[j].unitId = UnitId(NewUnitNumber(i, j))
              /\ ProductionEvents(i)[j].buildingId = BldId(done[j])

\* both factories complete a unit in one step, beside a fort without an order
C30_Witness ==
  \E i \in DOMAIN engine :
    /\ Produces(i)
    /\ Len(Completing(i)) = 2
    /\ \E b \in DOMAIN stage[i].given.buildings : Ordered(i, b).producing = ""

\* a neutral factory with an order stands still while the other one completes
C30_WitnessNeutral ==
  \E i \in DOMAIN engine :
    /\ Produces(i)
    /\ Len(Completing(i)) = 1
    /\ \E b \in DOMAIN stage[i].given.buildings :
         Ordered(i, b).owner = NONE /\ Ordered(i, b).producing # ""

-----------------------------------------------------------------------------
(* Claims about the separation pass (SpecFlock) *)

\* the units as path following leaves them, before the separation pass
Followed(i) ==
  Table([id \in DOMAIN stage[i].given.units |->
           MoveUnit(stage[i].given, stage[i].given.units[id])])

\* the push on unit id computed from the positions in `units`
PushFrom(units, id) ==
  SeparationSum(units, units[id], Keys(units), 1, [x |-> 0, y |-> 0, count |-> 0])

\* unit id pushed by the units as they stood in `units`, kept in the world
PushedFrom(units, id) ==
  LET sep == PushFrom(units, id)
  IN ClampToWorld(IF units[id].hp > 0 /\ sep.count > 0
                  THEN [units[id] EXCEPT !.x = @ + DivT(sep.x, sep.count),
                                         !.y = @ + DivT(sep.y, sep.count)]
                  ELSE units[id])

\* C31: the separation pass moves every unit by the push computed from the
\* positions all units had before the pass began, so the result does not
\* depend on the order in which the units are visited.
C31_SeparationFromOriginals ==
  \A i \in DOMAIN engine :
    stage[i].tick >= 0 =>
      \A id \in DOMAIN stage[i].returned.units :
        /\ stage[i].returned.units[id].x = PushedFrom(Followed(i), id).x
        /\ stage[i].returned.units[id].y = PushedFrom(Followed(i), id).y

-----------------------------------------------------------------------------
(* Claims about the events handed to the audio and toast handler (SpecLoops) *)

\* the events of the tick() calls i..Len(calls), in the order of emission
RECURSIVE EmittedFrom(_, _)
EmittedFrom(calls, i) ==
  IF i > Len(calls) THEN <<>> ELSE calls[i].events \o EmittedFrom(calls, i + 1)

\* the events emitted by the tick() calls of the last frame of client c that
\* ran the engine
Emitted(c) == EmittedFrom(consumed[c].calls, 1)

\* C32: every event emitted during a tick is handed to the handler exactly
\* once, in the single-player loop and in the networked loop, whichever tick
\* of the turn window emitted it.
C32_EventsHandedOnce ==
  \A c \in DOMAIN consumed :
    consumed[c].calls # <<>> => consumed[c].heard = Emitted(c)

\* The part of C32 that holds: a frame of the single-player loop hands on what
\* its one tick emitted, and no event is handed on twice.
C32_SoloEventsHandedOnce ==
  \A c \in DOMAIN consumed :
    /\ Len(consumed[c].calls) = 1 => consumed[c].heard = Emitted(c)
    /\ consumed[c].calls # <<>> =>
         consumed[c].heard = consumed[c].calls[Len(consumed[c].calls)].events

-----------------------------------------------------------------------------
(* Claims about the end of the game (SpecEngine) *)

GameOverEvents(state) == Len(EventsOfType(state.events, "gameOver"))

\* isRunning is false exactly when a team has won
Decided(state) == (~state.isRunning) <=> state.winner \in {RED, BLUE}

\* a tick() call on a finished game leaves the verdict alone and emits no
\* gameOver; a call on a running game emits one exactly if it ends the game
VerdictKept(a, b) ==
  /\ ~a.isRunning =>
       /\ ~b.isRunning /\ b.winner = a.winner /\ b.winReason = a.winReason
       /\ GameOverEvents(b) = 0
  /\ a.isRunning => GameOverEvents(b) = IF b.isRunning THEN 0 ELSE 1

\* C33: isRunning is false exactly when the winner is RED or BLUE; once the
\* game is over, isRunning, winner and winReason never change again, and one
\* gameOver event is emitted over the whole run: by the call that ends the
\* game and by no other.
C33_GameOverStable ==
  /\ [](\A i \in DOMAIN engine : Decided(engine[i].state))
  /\ [][\A i \in DOMAIN engine :
          engine'[i].state.tick # engine[i].state.tick =>
            VerdictKept(engine[i].state, engine'[i].state)]_vars

\* a tick() call, with commands, on a game that was already over
C33_Witness ==
  \E i \in DOMAIN engine :
    /\ stage[i].tick > WIN_CHECK_TICK
    /\ ~stage[i].wasRunning
    /\ stage[i].commands # <<>>
    /\ engine[i].state.winner \in {RED, BLUE}

-----------------------------------------------------------------------------
(* Claims about the progress of the lockstep (SpecLive) *)

BothPlaying == \A c \in Clients : loop[c].screen = "playing"

\* turn n is through: the relay has broadcast turnData n and both clients
\* have run the ticks of window n
TurnThrough(n) ==
  /\ \E k \in DOMAIN relayLog.tags : relayLog.tags[k] = n
  /\ \A c \in Clients :
       \E w \in DOMAIN consumed[c].windows : consumed[c].windows[w].turn = n

\* C34: with both peers connected and every message delivered the lockstep
\* does not deadlock: once both clients play, every turn is eventually
\* submitted by both, broadcast by the relay and run by both clients.
C34_LockstepProgresses ==
  \A n \in 0..(MaxTurns - 1) : BothPlaying ~> TurnThrough(n)

\* the last turn of the run is through, with a player's command in it
C34_Witness ==
  /\ TurnThrough(MaxTurns - 1)
  /\ \E c \in Clients : \E w \in DOMAIN consumed[c].windows :
       consumed[c].windows[w].commands # <<>>

-----------------------------------------------------------------------------
(* Claims about the submissions of a turn (SpecNet) *)

\* the turnCommands messages of client c that the relay has not received yet
InFlight(c) == OfType(c2s[c], "turnCommands")

\* the submissions of client c the relay holds for the turn it is collecting
Held(c) == SelectSeq(relayLog.pending, LAMBDA e : e.playerId = conn[c].playerId)

\* the step is client c sending a turnCommands message
Submits(c) ==
  /\ Len(c2s'[c]) = Len(c2s[c]) + 1
  /\ c2s'[c] = Append(c2s[c], c2s'[c][Len(c2s'[c])])
  /\ c2s'[c][Len(c2s'[c])].type = "turnCommands"

\* the turn tag of the message sent
SubmittedTurn(c) == c2s'[c][Len(c2s'[c])].turn

\* the step is the relay taking a submission of client c into a room
TakenIn(c) ==
  /\ Receivable(c, "turnCommands")
  /\ c2s'[c] = Tail(c2s[c])
  /\ relayLog' # relayLog

\* C35: a client has at most one submission outstanding.  It sends one
\* turnCommands per turn, tagged 0, 1, 2, ..., the one for a turn only after
\* it has run the window of the turn before; so the relay never replaces a
\* player's entry of the turn it is collecting, and the tag of a submission
\* is the relay's current turn when it is taken in.
C35_OneSubmissionOutstanding ==
  /\ [](\A c \in Clients : Len(InFlight(c)) + Len(Held(c)) <= 1)
  /\ [][\A c \in Clients :
          /\ Submits(c) =>
               /\ SubmittedTurn(c) = Len(consumed'[c].windows)
               /\ InFlight(c) = <<>> /\ Held(c) = <<>>
               /\ loop'[c].waitingForTurnData
          /\ TakenIn(c) =>
               Head(c2s[c]).turn = rooms[playerToRoom[c]].currentTurn]_vars

\* the relay takes in a submission for turn 1 while the other player's
\* submission for that turn is held
C35_Witness ==
  \E c \in Clients :
    /\ Len(Held(c)) = 1
    /\ Held(c)[1].turn = 1
    /\ \E d \in Clients \ {c} : Len(InFlight(d)) = 1 /\ InFlight(d)[1].turn = 1

-----------------------------------------------------------------------------
(* Claims about the membership of rooms (SpecRelay) *)

\* the rooms whose players map lists connection c
RoomsOf(c) == {code \in DOMAIN rooms : c \in Sockets(rooms[code])}

\* the relay has handled the close of connection c
Gone(c) == conn[c].status = "closed" /\ c2s[c] = <<>>

\* C36: a connection is a member of at most one room, and no room lists a
\* connection whose close the relay has handled, also when the connection
\* sent createRoom or joinRoom more than once.
C36_OneRoomPerConnection ==
  \A c \in DOMAIN conn :
    /\ Cardinality(RoomsOf(c)) <= 1
    /\ Gone(c) => RoomsOf(c) = {}

\* The part of C36 that holds: the room playerToRoom names for a connection
\* lists it, and a connection whose close was handled has no entry there.
C36_IndexedRoomListsConnection ==
  \A c \in DOMAIN conn :
    /\ c \in DOMAIN playerToRoom /\ playerToRoom[c] \in DOMAIN rooms =>
         playerToRoom[c] \in RoomsOf(c)
    /\ Gone(c) => c \notin DOMAIN playerToRoom

-----------------------------------------------------------------------------
(* Claims about the steps of a unit in one tick() call (SpecEngine) *)

\* the units that took a path-following action in both updateMovement runs
\* of the last tick() call of engine i
FollowedTwice(i) == stage[i].followed.first \cap stage[i].followed.second

\* C37: in one tick() call every unit takes at most one path-following action
\* (a waypoint pop, or a step toward its waypoint or its attack target),
\* whatever its team and the mode of the game, also on the AI's ticks.
C37_OneStepPerTick ==
  \A i \in DOMAIN engine : stage[i].tick >= 0 => FollowedTwice(i) = {}

\* The part of C37 that holds: a unit takes at most one path-following action
\* in every tick() call of a networked engine, and in every call of a
\* single-player engine that is not on a 30th tick.
C37_OneStepOffAITicks ==
  \A i \in DOMAIN engine :
    stage[i].tick >= 0 /\ (engine[i].isMultiplayer \/ stage[i].tick % 30 # 0)
      => stage[i].followed.second = {}

-----------------------------------------------------------------------------
(* SpecHunt: a RED sniper with a BLUE grunt 30 px away, in the range of both. *)
(* The frame loop of the game calls tick() frame after frame until the game   *)
(* is over (GameScreen, "if (!state.isRunning) { onGameOver(...); return }"), *)
(* and the RED player may order an attack on the grunt or a move with the     *)
(* first call.  BLUE owns nothing that produces, so the game is over at the   *)
(* first win check after the grunt is removed.                                *)

MaxHuntTicks == 125     \* tick() calls of the hunt (the game is over before)

ScenarioHunt ==
  createInitialState(
    << Sector(0, 40 * 100, RED, "fort"), Sector(1, 280 * 100, BLUE, "fort") >>,
    << [type |-> "sniper", x |-> 190 * 100, team |-> RED],
       [type |-> "grunt", x |-> 220 * 100, team |-> BLUE] >>)

InitHunt ==
  /\ \E mp \in BOOLEAN :
       engine = (1 :> [state |-> ScenarioHunt, isMultiplayer |-> mp])
  /\ stage = (1 :> NoStage)
  /\ budget = [commands |-> 1, ticks |-> MaxHuntTicks]
  /\ NoNetwork

\* the orders of the RED player
HuntOrders(state) ==
  { << [type |-> "attack", unitIds |-> UnitsOf(state, RED),
        targetId |-> FirstUnitOf(state, BLUE), team |-> RED] >>,
    << [type |-> "move", unitIds |-> UnitsOf(state, RED),
        targetX |-> state.sectors[1].flagX, targetY |-> state.sectors[1].flagY,
        team |-> RED] >> }

\* engine.tick(commands)
HuntTick(i, commands, s) ==
  LET e  == engine[i]
      st == TickStages(e.state, e.isMultiplayer, commands, s)
  IN /\ budget.ticks > 0
     /\ e.state.isRunning
     /\ \/ commands = <<>> /\ budget' = [budget EXCEPT !.ticks = @ - 1]
        \/ /\ budget.commands > 0
           /\ e.state.tick = 0
           /\ commands \in HuntOrders(e.state)
           /\ budget' = [budget EXCEPT !.commands = @ - 1, !.ticks = @ - 1]
     /\ engine' = [engine EXCEPT ![i].state = st.final]
     /\ stage' = [stage EXCEPT ![i] = StageView(e.state, commands, st)]
     /\ UNCHANGED <<loop, commandQueue, consumed, rooms, playerToRoom, conn,
                    c2s, s2c, relayLog>>

NextHunt ==
  \E i \in DOMAIN engine, s \in RandomStreams :
    \E commands \in {<<>>} \cup HuntOrders(engine[i].state) :
      HuntTick(i, commands, s)

SpecHunt == InitHunt /\ [][NextHunt]_vars

-----------------------------------------------------------------------------
(* Claims about units whose attack target is gone (SpecHunt) *)

\* the unit numbers and the attack targets of the scenarios
AttackerIds == 0..2
TargetIds   == {UnitId(n) : n \in 0..2} \cup {BldId(n) : n \in 0..2}

\* target t is removed from the state or has no hp left
TargetGone(state, t) ==
  \/ t.k = "unit" /\ (t.n \notin DOMAIN state.units \/ state.units[t.n].hp <= 0)
  \/ t.k = "bld" /\ (t.n \notin DOMAIN state.buildings \/ state.buildings[t.n].hp <= 0)

\* live unit id of engine i references target t, and t is gone
LostTarget(i, id, t) ==
  /\ id \in DOMAIN engine[i].state.units
  /\ engine[i].state.units[id].hp > 0
  /\ engine[i].state.units[id].attackTargetId = t
  /\ TargetGone(engine[i].state, t)

\* unit id of engine i has left the attacking state and the target t
Released(i, id, t) ==
  \/ id \notin DOMAIN engine[i].state.units
  \/ /\ engine[i].state.units[id].state # "attacking"
     /\ engine[i].state.units[id].attackTargetId # t

\* the frame loop has made its last tick() call: the game is over
HuntOver == ~engine[1].state.isRunning

\* C38: a unit whose attack target is removed or has no hp left eventually
\* leaves the attacking state and no longer references that target.  The
\* frame loop stops calling tick() when the game is over, so whatever happens
\* eventually has happened by then: when the game is over, every unit that
\* references a gone target has left the attacking state and that target.
C38_GoneTargetReleased ==
  HuntOver =>
    \A id \in AttackerIds, t \in TargetIds :
      LostTarget(1, id, t) => Released(1, id, t)

\* What the code does instead: a tick() call without commands leaves a unit
\* that references a gone target with that reference, and in the attacking
\* state if it was in it, unless the call removes the unit or is the AI's
\* turn.
C38_GoneTargetKept ==
  [][\A id \in AttackerIds, t \in TargetIds :
       /\ LostTarget(1, id, t)
       /\ engine'[1].state.tick = engine[1].state.tick + 1
       /\ stage'[1].commands = <<>>
       /\ ~RunsAI(engine[1].isMultiplayer, engine[1].state)
       /\ id \in DOMAIN engine'[1].state.units
       => /\ engine'[1].state.units[id].attackTargetId = t
          /\ engine[1].state.units[id].state = "attacking"
               => engine'[1].state.units[id].state = "attacking"]_vars

\* every run of the hunt ends with the game over, none with the last of the
\* MaxHuntTicks calls
C38_HuntEndsWithGameOver ==
  budget.ticks = 0 => HuntOver

\* the game is over, the frame loop has stopped, and a unit stands in the
\* attacking state with a target that was removed
C38_AttackingGoneTarget ==
  \E id \in AttackerIds, t \in TargetIds :
    /\ LostTarget(1, id, t)
    /\ t.n \notin DOMAIN engine[1].state.units
    /\ engine[1].state.units[id].state = "attacking"
    /\ HuntOver

-----------------------------------------------------------------------------
(* Claims about the state and the path of a unit (SpecEngine) *)

\* the units of engine i between two tick() calls
UnitsNow(i) == engine[i].state.units

\* C39: between ticks a unit is in state moving exactly when its path is not
\* empty: an idle or attacking unit has an empty path, whatever Move and
\* Attack commands and Movement steps came before.
C39_MovingIffPath ==
  \A i \in DOMAIN engine : \A id \in DOMAIN UnitsNow(i) :
    /\ UnitsNow(i)[id].state \in {"idle", "moving", "attacking"}
    /\ UnitsNow(i)[id].state = "moving" <=> Len(UnitsNow(i)[id].path) > 0

\* a tick() call found a moving unit with one waypoint left, and the unit
\* stands idle with an empty path after it
C39_Witness ==
  \E i \in DOMAIN engine :
    /\ stage[i].tick >= 0
    /\ \E id \in DOMAIN UnitsNow(i) \cap DOMAIN stage[i].commanded.units :
         /\ Len(stage[i].commanded.units[id].path) = 1
         /\ stage[i].commanded.units[id].state = "moving"
         /\ UnitsNow(i)[id].path = <<>>
         /\ UnitsNow(i)[id].state = "idle"

-----------------------------------------------------------------------------
(* SpecArmy: an aged match in which a RED grunt and a BLUE heavy tank have    *)
(* just come into each other's range next to a RED robot factory whose timer  *)
(* is close to its ceiling: units and projectiles are created and removed in  *)
(* the same few ticks.                                                        *)

MaxArmyTicks == 30      \* tick() calls on the aged match

\* the timer of the factory: done in 3 ticks, before the grunt is killed, or
\* in 22, after it
ArmyTimers ==
  LET c == ProdMaxTime("grunt", 2) \div 1000 IN {c - 3, c - 22}

ArmyState(t1) ==
  LET fresh == createInitialState(
                 << Sector(0, 40 * 100, RED, "fort"),
                    Sector(1, 170 * 100, RED, "robotFactory"),
                    Sector(2, 280 * 100, BLUE, "fort") >>,
                 << [type |-> "grunt", x |-> 150 * 100, team |-> RED],
                    [type |-> "heavy", x |-> 220 * 100, team |-> BLUE] >>)
  IN [fresh EXCEPT !.tick = AgedTick, !.buildings[1].prodTimer = t1]

InitArmy ==
  /\ \E t1 \in ArmyTimers, mp \in BOOLEAN :
       engine = (1 :> [state |-> ArmyState(t1), isMultiplayer |-> mp])
  /\ stage = (1 :> NoStage)
  /\ budget = [commands |-> 0, ticks |-> MaxArmyTicks]
  /\ NoNetwork

\* engine.tick([])
ArmyTick(i, s) ==
  LET e  == engine[i]
      st == TickStages(e.state, e.isMultiplayer, <<>>, s)
  IN /\ budget.ticks > 0
     /\ budget' = [budget EXCEPT !.ticks = @ - 1]
     /\ engine' = [engine EXCEPT ![i].state = st.final]
     /\ stage' = [stage EXCEPT ![i] = StageView(e.state, <<>>, st)]
     /\ UNCHANGED <<loop, commandQueue, consumed, rooms, playerToRoom, conn,
                    c2s, s2c, relayLog>>

NextArmy == \E i \in DOMAIN engine, s \in RandomStreams : ArmyTick(i, s)

SpecArmy == InitArmy /\ [][NextArmy]_vars

-----------------------------------------------------------------------------
(* Claims about entity ids (SpecArmy) *)

\* every unit and projectile of `state` carries a number below its counter
IdsBelowCounters(state) ==
  /\ \A id \in DOMAIN state.units :
       state.units[id].id = id /\ id < state.nextUnitId
  /\ \A p \in DOMAIN state.projectiles :
       state.projectiles[p].id = p /\ p < state.nextProjectileId

\* the units the last tick() call produced, in the order of their events
Born(state) == EventsOfType(state.events, "unitProduced")

\* `after` follows `before` by one tick() call: the counters did not go down,
\* each went up by the number of entities the call created, and every unit
\* and projectile that is new carries a number no earlier one carried
FreshIds(before, after) ==
  /\ after.nextUnitId = before.nextUnitId + Len(Born(after))
  /\ after.nextProjectileId
       = before.nextProjectileId + Len(EventsOfType(after.events, "unitFired"))
  /\ \A k \in 1..Len(Born(after)) :
       Born(after)[k].unitId = UnitId(before.nextUnitId + k - 1)
  /\ \A id \in DOMAIN after.units \ DOMAIN before.units : id >= before.nextUnitId
  /\ \A p \in DOMAIN after.projectiles \ DOMAIN before.projectiles :
       p >= before.nextProjectileId

\* C40: ids are never reused: nextUnitId and nextProjectileId never go down,
\* every unit and projectile created gets an id that no earlier one had, also
\* after the earlier one was removed, and every unit and projectile present
\* carries a number below its counter.
C40_IdsNeverReused ==
  /\ [](\A i \in DOMAIN engine : IdsBelowCounters(engine[i].state))
  /\ [][\A i \in DOMAIN engine :
         engine'[i].state.tick # engine[i].state.tick
           => FreshIds(engine[i].state, engine'[i].state)]_vars

\* the first unit and the first two projectiles are gone, a unit produced
\* after that is there and has fired in the last tick() call
C40_Witness ==
  \E i \in DOMAIN engine :
    LET state == engine[i].state
    IN /\ 0 \notin DOMAIN state.units
       /\ state.nextUnitId > 2
       /\ \E id \in DOMAIN state.units : id >= 2
       /\ state.nextProjectileId > 2
       /\ \E p \in DOMAIN state.projectiles :
            p >= 2 /\ {0, 1} \cap DOMAIN state.projectiles = {}

====
